---- MODULE Spec2Model ----
(***************************************************************************)
(* Model of the Sei indexer (src/src/oss/src/vector_stores/sei_indexer.ts):*)
(* the rolling-hash digest primitive, the Merkle tree builder, the proof  *)
(* path generator, the event ingestion loop that feeds the local index    *)
(* and the vector store, the periodic index root updates and the          *)
(* verified search.                                                        *)
(*                                                                         *)
(* Strings are sequences of UTF-16 code units, so that concatenation,     *)
(* number formatting and the hash are computed as the code computes them. *)
(* A 32-bit accumulator is kept as two 16-bit limbs <<hi, lo>> because     *)
(* the model checker's integers are themselves 32 bits wide.              *)
(***************************************************************************)
EXTENDS Integers, Sequences, FiniteSets, TLC

----------------------------------------------------------------------------
(* Bounds of the model *)

MaxLeaves == 4        \* longest entry list handed to the tree functions
MaxEvents == 2        \* number of append events the ledger may emit
MaxLoops  == 2        \* number of start() calls (each spawns a listener loop)
MaxPolls  == 2        \* number of polls of the event source, over all loops
MaxCycles == 2        \* number of updateIndexRoots() calls, over all timers
MaxSearches == 1      \* number of search() calls
MaxIndexed == 3       \* largest index handed to the two root computations
MaxDims   == 12        \* largest number of components of an embedding hashed
MaxTxs    == 3        \* number of transactions the ledger mines
MaxAdds   == 1        \* number of MemoryClient.add() calls
MaxCalls  == 4        \* number of PaymentVault calls
InitialTokens == 300  \* tokens every account holds when the vault is deployed
MaxHashLen == 3       \* length of the strings simpleHash is applied to

----------------------------------------------------------------------------
(* Characters and strings *)

Two16 == 65536

CharZero  == 48       \* "0"
CharX     == 120      \* "x"
CharDash  == 45       \* "-"
CharComma == 44       \* ","

Min(a, b) == IF a < b THEN a ELSE b

\* Number.prototype.toString() of an integer-valued number
RECURSIVE Digits(_)
Digits(n) ==
    IF n < 10 THEN << CharZero + n >>
    ELSE Digits(n \div 10) \o << CharZero + (n % 10) >>

NumToString(n) == IF n < 0 THEN << CharDash >> \o Digits(0 - n) ELSE Digits(n)

\* Array.prototype.join(",") of an array of numbers
RECURSIVE Join(_)
Join(nums) ==
    IF Len(nums) = 0 THEN << >>
    ELSE IF Len(nums) = 1 THEN NumToString(nums[1])
    ELSE NumToString(nums[1]) \o << CharComma >> \o Join(Tail(nums))

\* Array.prototype.join("") of an array of numbers
RECURSIVE JoinEmpty(_)
JoinEmpty(nums) ==
    IF Len(nums) = 0 THEN << >>
    ELSE NumToString(nums[1]) \o JoinEmpty(Tail(nums))

\* Array.prototype.slice(0, n)
Slice(arr, n) == SubSeq(arr, 1, Min(Len(arr), n))

\* String.prototype.padStart(n, c)
PadStart(str, n, c) ==
    IF Len(str) >= n THEN str ELSE [i \in 1..(n - Len(str)) |-> c] \o str

----------------------------------------------------------------------------
(* simpleHash: the digest primitive *)

\* hash = (hash << 5) - hash + char; hash = hash & hash
\* i.e. 31 * hash + char reduced to 32 bits
HashStep(h, c) ==
    LET lo2 == h[2] * 31 + c
    IN  << (h[1] * 31 + (lo2 \div Two16)) % Two16, lo2 % Two16 >>

\* the for loop over str[a..b], started from accumulator h; the range is
\* folded by halves (the accumulator of the left half feeds the right half).
\* A limb is never negative: the test on hm only makes the left half be
\* evaluated before the right half is entered.
RECURSIVE HashLoop(_, _, _, _)
HashLoop(h, str, a, b) ==
    IF a > b THEN h
    ELSE IF a = b THEN HashStep(h, str[a])
    ELSE LET mid == (a + b) \div 2
             hm  == HashLoop(h, str, a, mid)
         IN  IF hm[1] >= 0 THEN HashLoop(hm, str, mid + 1, b) ELSE hm

\* the accumulator read as a signed 32-bit integer is negative
IsNegative(h) == h[1] >= 32768

\* Math.abs of the signed accumulator (2^31 for the accumulator -2^31)
MathAbs(h) ==
    IF IsNegative(h)
    THEN << (65535 - h[1]) + (IF h[2] = 0 THEN 1 ELSE 0), (Two16 - h[2]) % Two16 >>
    ELSE h

HexChar(d) == IF d < 10 THEN CharZero + d ELSE 87 + d

Hex4(n) ==
    << HexChar(n \div 4096), HexChar((n \div 256) % 16),
       HexChar((n \div 16) % 16), HexChar(n % 16) >>

RECURSIVE StripZeros(_)
StripZeros(str) ==
    IF Len(str) > 1 /\ str[1] = CharZero THEN StripZeros(Tail(str)) ELSE str

\* Number.prototype.toString(16) of a non-negative magnitude
ToString16(m) == StripZeros(Hex4(m[1]) \o Hex4(m[2]))

\* variant: the hexadecimal string is returned as toString(16) gives it
simpleHashUnpadded(str) ==
    ToString16(MathAbs(HashLoop(<<0, 0>>, str, 1, Len(str))))

simpleHash(str) ==
    PadStart(ToString16(MathAbs(HashLoop(<<0, 0>>, str, 1, Len(str)))), 64, CharZero)

Prefix0x == << CharZero, CharX >>

hashPair(left, right) == Prefix0x \o simpleHash(left \o right)

EmbedPrefix == 10

\* variant: every component of the embedding is hashed
hashLeafWhole(cid, embedding, timestamp) ==
    Prefix0x \o simpleHash(cid \o << CharDash >>
                               \o Join(embedding)
                               \o << CharDash >> \o NumToString(timestamp))

hashLeaf(cid, embedding, timestamp) ==
    Prefix0x \o simpleHash(cid \o << CharDash >>
                               \o Join(Slice(embedding, EmbedPrefix))
                               \o << CharDash >> \o NumToString(timestamp))

\* CambrianMemoryTool.simpleHash: the same loop, returned as a number
toolSimpleHash(str) == MathAbs(HashLoop(<<0, 0>>, str, 1, Len(str)))

ToolPrefix == 5

\* CambrianMemoryTool.computeMerkleLeaf, the producer's leaf digest
computeMerkleLeaf(cid, embedding, timestamp) ==
    Prefix0x \o PadStart(ToString16(toolSimpleHash(
                    cid \o JoinEmpty(Slice(embedding, ToolPrefix))
                        \o NumToString(timestamp))), 64, CharZero)

----------------------------------------------------------------------------
(* Merkle tree builder and proof path *)

ZeroRoot == Prefix0x \o [i \in 1..64 |-> CharZero]

LeavesOf(entries) ==
    [i \in 1..Len(entries) |->
        hashLeaf(entries[i].cid, entries[i].embedding, entries[i].timestamp)]

\* variant of NextLevel: an unpaired last node is promoted unchanged
NextLevelPromote(level) ==
    [j \in 1..((Len(level) + 1) \div 2) |->
        IF 2 * j <= Len(level)
        THEN hashPair(level[2 * j - 1], level[2 * j])
        ELSE level[2 * j - 1]]

\* the inner for loop: adjacent pairs, an unpaired last node paired with itself
NextLevel(level) ==
    [j \in 1..((Len(level) + 1) \div 2) |->
        LET left  == level[2 * j - 1]
            right == IF 2 * j <= Len(level) THEN level[2 * j] ELSE left
        IN  hashPair(left, right)]

\* the while (currentLevel.length > 1) loop
RECURSIVE ReduceLevels(_)
ReduceLevels(level) ==
    IF Len(level) > 1 THEN ReduceLevels(NextLevel(level)) ELSE level

\* variant of computeMerkleRoot: no early return for a single leaf and a
\* loop body that runs at least once (do ... while)
computeMerkleRootDoWhile(entries) ==
    LET leaves == LeavesOf(entries)
    IN  IF Len(leaves) = 0 THEN ZeroRoot
        ELSE ReduceLevels(NextLevel(leaves))[1]

computeMerkleRoot(entries) ==
    LET leaves == LeavesOf(entries)
    IN  IF Len(leaves) = 0 THEN ZeroRoot
        ELSE IF Len(leaves) = 1 THEN leaves[1]
        ELSE ReduceLevels(leaves)[1]

\* Array.prototype.indexOf, 0-based, -1 when absent
IndexOf(arr, x) ==
    IF \E i \in 1..Len(arr) : arr[i] = x
    THEN (CHOOSE i \in 1..Len(arr) :
              arr[i] = x /\ \A j \in 1..(i - 1) : arr[j] # x) - 1
    ELSE 0 - 1

\* the while loop of generateProofPath; currentIndex is 0-based as in the code
RECURSIVE ProofLoop(_, _, _)
ProofLoop(currentLevel, currentIndex, proof) ==
    IF Len(currentLevel) > 1
    THEN LET isEven       == currentIndex % 2 = 0
             siblingIndex == IF isEven THEN currentIndex + 1 ELSE currentIndex - 1
             pushed       == IF siblingIndex < Len(currentLevel)
                             THEN Append(proof, currentLevel[siblingIndex + 1])
                             ELSE proof
         IN  ProofLoop(NextLevel(currentLevel), currentIndex \div 2, pushed)
    ELSE proof

generateProofPath(entries, targetEntry) ==
    LET leaves      == LeavesOf(entries)
        targetLeaf  == hashLeaf(targetEntry.cid, targetEntry.embedding,
                                targetEntry.timestamp)
        targetIndex == IndexOf(leaves, targetLeaf)
    IN  IF targetIndex = 0 - 1 THEN << >>
        ELSE ProofLoop(leaves, targetIndex, << >>)

----------------------------------------------------------------------------
(* Data: content addresses, streams, IPFS documents, index entries *)

CidAa == << 65, 97 >>     \* "Aa"
CidBB == << 66, 66 >>     \* "BB"
CidC  == << 67 >>         \* "C"
CidD  == << 68 >>         \* "D"
CidE  == << 69 >>         \* "E"

NoValue == "undefined"

\* interface IndexEntry, as built by processMemoryAppendedEvent
IndexEntry(cid, embedding, timestamp, streamId, merkleRoot, blockNumber) ==
    [ cid       |-> cid,
      embedding |-> embedding,
      metadata  |-> [ streamId    |-> streamId,
                      merkleRoot  |-> merkleRoot,
                      blockNumber |-> blockNumber ],
      timestamp |-> timestamp,
      streamId  |-> streamId ]

----------------------------------------------------------------------------
(* State *)

VARIABLES
    isRunning,            \* SeiIndexer.isRunning
    lastProcessedBlock,   \* SeiIndexer.lastProcessedBlock
    indexEntries,         \* SeiIndexer.indexEntries: Map in insertion order
    vectorStore,          \* config.vectorStore: the inserts it has accepted
    chain,                \* the registry's MemoryAppended events, in order
    loops,                \* one record per startEventListener() invocation
    polls,                \* number of fetchMockEvents() calls made so far
    timers,               \* number of setInterval timers startIndexRootUpdater installed
    ticks,                \* number of updateIndexRoots() calls made so far
    cycles,               \* the updateIndexRoots() calls in progress
    rootCalls,            \* every setIndexRootOnChain call issued, in order
    indexRoot,            \* MemoryRegistry: streams[streamId].indexRoot
    searches,             \* one record per search() call
    tEntries,             \* tree functions: the entries argument
    tTarget,              \* tree functions: position of the target entry
    tPc,                  \* tree functions: "input", "done", "replaced", ...
    tResult,              \* tree functions: leaf, proof path and root computed
    tPrev                 \* tree functions: input and result before a change

VARIABLES
    streams,              \* MemoryRegistry.streams
    streamHistory,        \* MemoryRegistry.streamHistory
    authorizations,       \* MemoryAccess.authorizations
    memoryAppended,       \* the MemoryAppended events emitted, with their transaction
    txCount,              \* number of transactions mined so far
    lastTx,               \* the transaction mined last
    adds                  \* one record per MemoryClient.add() call

VARIABLES
    usdc,                 \* usdcToken: the token balance of every holder
    balances,             \* PaymentVault.balances
    streamPayments,       \* PaymentVault.streamPayments
    indexerEarnings,      \* PaymentVault.indexerEarnings
    callCount,            \* number of PaymentVault calls made so far
    lastCall              \* the PaymentVault call made last

VARIABLES
    hInput,               \* simpleHash: the argument str
    hPc,                  \* simpleHash: "idle", "input" or "hashed"
    hResult               \* simpleHash: accumulator, magnitude and digest

anchorVars  == << timers, ticks, cycles, rootCalls, indexRoot >>
searchVars  == << searches >>
indexerVars == << isRunning, lastProcessedBlock, indexEntries, vectorStore,
                  chain, loops, polls, timers, ticks, cycles, rootCalls,
                  indexRoot, searches >>
treeVars    == << tEntries, tTarget, tPc, tResult, tPrev >>
contractVars == << streams, streamHistory, authorizations, memoryAppended,
                   txCount, lastTx >>
hashVars    == << hInput, hPc, hResult >>
vaultVars   == << usdc, balances, streamPayments, indexerEarnings, callCount,
                  lastCall >>
registryVars == << streams, streamHistory, authorizations, memoryAppended,
                   txCount, lastTx, adds >>
ledgerVars  == << streams, streamHistory, authorizations, memoryAppended,
                  txCount, lastTx, adds, usdc, balances, streamPayments,
                  indexerEarnings, callCount, lastCall >>
vars        == << isRunning, lastProcessedBlock, indexEntries, vectorStore,
                  chain, loops, polls, timers, ticks, cycles, rootCalls,
                  indexRoot, searches, tEntries, tTarget, tPc, tResult, tPrev,
                  streams, streamHistory, authorizations, memoryAppended,
                  txCount, lastTx, adds, usdc, balances, streamPayments,
                  indexerEarnings, callCount, lastCall, hInput, hPc, hResult >>

\* the streams registered with the MemoryRegistry contract
Streams == { "s1", "s2" }

\* the accounts that send transactions, and address(0)
Addresses   == { "a1", "a2", "a3" }
ZeroAddress == "0x0"

Capabilities == { "WRITE", "ADMIN", "OWNER" }

\* a storage slot of MemoryRegistry.streams never written: every field zero
EmptyStream ==
    [ owner             |-> ZeroAddress,
      policy            |-> "",
      latestCID         |-> << >>,
      latestMerkleRoot  |-> ZeroRoot,
      lastUpdated       |-> 0,
      indexRoot         |-> ZeroRoot,
      authorizedIndexer |-> ZeroAddress,
      exists            |-> FALSE ]

\* a slot of MemoryAccess.authorizations never written
NoAuthorization == [ role |-> "NONE", revoked |-> FALSE ]

NoTx == [ fn |-> "none", sender |-> ZeroAddress, streamId |-> "none",
          owner |-> ZeroAddress, status |-> "none" ]

\* PaymentVault: the fee in basis points and the denominator
INDEXING_FEE_BASIS_POINTS == 100
BASIS_POINTS_DENOMINATOR  == 10000

\* address(this) of the PaymentVault, as a holder of the token
Vault == "vault"

NoCall == [ fn |-> "none", sender |-> ZeroAddress, to |-> ZeroAddress,
            amount |-> 0, status |-> "none" ]

\* PaymentVault as deployed: every mapping slot is zero; the token is held
\* by the accounts and the vault holds none
VaultInit ==
    /\ usdc = [ h \in Addresses \cup { Vault } |->
                 IF h = Vault THEN 0 ELSE InitialTokens ]
    /\ balances = [ a \in Addresses |-> 0 ]
    /\ streamPayments = [ s \in Streams |-> 0 ]
    /\ indexerEarnings = [ a \in Addresses |-> 0 ]
    /\ callCount = 0
    /\ lastCall = NoCall

\* the contracts as deployed, and a client that made no call
LedgerInit ==
    /\ VaultInit
    /\ streams = [ s \in Streams |-> EmptyStream ]
    /\ streamHistory = [ s \in Streams |-> << >> ]
    /\ authorizations = [ k \in Streams \X Addresses \X Capabilities
                            |-> NoAuthorization ]
    /\ memoryAppended = << >>
    /\ txCount = 0
    /\ lastTx = NoTx
    /\ adds = << >>

\* field initialisers and constructor of SeiIndexer; nothing has been emitted,
\* and the registry holds bytes32(0) as the index root of every stream
IndexerInit ==
    /\ isRunning = FALSE
    /\ lastProcessedBlock = 0
    /\ indexEntries = << >>
    /\ vectorStore = << >>
    /\ chain = << >>
    /\ loops = << >>
    /\ polls = 0
    /\ timers = 0
    /\ ticks = 0
    /\ cycles = << >>
    /\ rootCalls = << >>
    /\ indexRoot = [ s \in Streams |-> ZeroRoot ]
    /\ searches = << >>
    /\ LedgerInit

TreeIdle ==
    /\ tEntries = << >>
    /\ tTarget = 0
    /\ tPc = "idle"
    /\ tResult = NoValue
    /\ tPrev = NoValue

\* no call of simpleHash on its own is under way
HashIdle ==
    /\ hInput = << >>
    /\ hPc = "idle"
    /\ hResult = NoValue

\* the digest primitive applied to bounded inputs

\* the UTF-16 code units the input strings are made of: G, Z, _, d, y and
\* the largest code unit
HashAlphabet == { 71, 90, 95, 100, 121, 65535 }

\* "GydZG_", whose accumulator ends at -2^31
MinAccString == << 71, 121, 100, 90, 71, 95 >>

RECURSIVE StringsOf(_)
StringsOf(n) ==
    IF n = 0 THEN { << >> }
    ELSE { Append(str, c) : str \in StringsOf(n - 1), c \in HashAlphabet }

HashInputs ==
    UNION { StringsOf(n) : n \in 0..MaxHashLen } \cup { MinAccString }

\* what simpleHash computes on the way to its digest
HashResult(str) ==
    LET acc == HashLoop(<< 0, 0 >>, str, 1, Len(str))
    IN  [ acc    |-> acc,
          abs    |-> MathAbs(acc),
          digest |-> simpleHash(str),
          pair   |-> hashPair(str, << >>) ]

HashInit ==
    /\ IndexerInit
    /\ TreeIdle
    /\ hInput \in HashInputs
    /\ hPc = "input"
    /\ hResult = NoValue

ApplyHash ==
    /\ hPc = "input"
    /\ hResult' = HashResult(hInput)
    /\ hPc' = "hashed"
    /\ UNCHANGED hInput
    /\ UNCHANGED << indexerVars, treeVars, ledgerVars >>

HashNext == ApplyHash

SpecHash == HashInit /\ [][HashNext]_vars

----------------------------------------------------------------------------
(* The tree functions applied to bounded inputs *)

TreeCids == { CidAa, CidBB, CidC, CidD, CidE }

TreeEntry(cid) == IndexEntry(cid, << 1, 2 >>, 7, "s1", 0, 1)

\* entry lists as the index can hold them: no content address twice
RECURSIVE EntryLists(_)
EntryLists(n) ==
    IF n = 0 THEN { << >> }
    ELSE LET shorter == EntryLists(n - 1)
         IN  shorter \cup
             { Append(l, TreeEntry(c)) :
                 l \in { x \in shorter : Len(x) = n - 1 },
                 c \in TreeCids }

HasCid(list, cid) == \E i \in 1..Len(list) : list[i].cid = cid

DistinctLists(n) ==
    { l \in EntryLists(n) :
        \A i, j \in 1..Len(l) : l[i].cid = l[j].cid => i = j }

\* what generateMerkleProof computes from a list of stream entries and a
\* target entry: the leaf, the proof path and the root
ProofRecord(entries, entry) ==
    [ leaf  |-> hashLeaf(entry.cid, entry.embedding, entry.timestamp),
      proof |-> generateProofPath(entries, entry),
      root  |-> computeMerkleRoot(entries) ]

TreeResult(entries, target) ==
    IF target = 0
    THEN [ leaf |-> << >>, proof |-> << >>, root |-> computeMerkleRoot(entries) ]
    ELSE ProofRecord(entries, entries[target])

TreeInit ==
    /\ IndexerInit
    /\ HashIdle
    /\ tEntries \in DistinctLists(MaxLeaves)
    /\ tTarget \in (IF Len(tEntries) = 0 THEN { 0 } ELSE 1..Len(tEntries))
    /\ tPc = "input"
    /\ tResult = NoValue
    /\ tPrev = NoValue

\* build the root and the proof path for the input
BuildAndProve ==
    /\ tPc = "input"
    /\ tResult' = TreeResult(tEntries, tTarget)
    /\ tPc' = "done"
    /\ UNCHANGED << tEntries, tTarget, tPrev >>
    /\ UNCHANGED << indexerVars, ledgerVars, hashVars >>

\* replace the target entry by an entry with another content address, rebuild
ReplaceLeaf ==
    /\ tPc = "done"
    /\ tTarget > 0
    /\ \E c \in TreeCids :
          /\ ~ HasCid(tEntries, c)
          /\ tEntries' = [ tEntries EXCEPT ![tTarget] = TreeEntry(c) ]
    /\ tPrev' = [ entries |-> tEntries, target |-> tTarget, result |-> tResult ]
    /\ tResult' = TreeResult(tEntries', tTarget)
    /\ tPc' = "replaced"
    /\ UNCHANGED tTarget
    /\ UNCHANGED << indexerVars, ledgerVars, hashVars >>

\* exchange the target entry with its right neighbour, rebuild for the same
\* target entry at its new position
SwapLeaves ==
    /\ tPc = "done"
    /\ tTarget > 0
    /\ tTarget < Len(tEntries)
    /\ tEntries' = [ tEntries EXCEPT ![tTarget] = tEntries[tTarget + 1],
                                     ![tTarget + 1] = tEntries[tTarget] ]
    /\ tTarget' = tTarget + 1
    /\ tPrev' = [ entries |-> tEntries, target |-> tTarget, result |-> tResult ]
    /\ tResult' = TreeResult(tEntries', tTarget')
    /\ tPc' = "swapped"
    /\ UNCHANGED << indexerVars, ledgerVars, hashVars >>

\* an entry with a content address not yet indexed is appended (the Map.set
\* of processMemoryAppendedEvent for a new key), rebuild with it as target
AppendLeaf ==
    /\ tPc = "done"
    /\ Len(tEntries) < MaxLeaves
    /\ \E c \in TreeCids :
          /\ ~ HasCid(tEntries, c)
          /\ tEntries' = Append(tEntries, TreeEntry(c))
    /\ tTarget' = Len(tEntries')
    /\ tPrev' = [ entries |-> tEntries, target |-> tTarget, result |-> tResult ]
    /\ tResult' = TreeResult(tEntries', tTarget')
    /\ tPc' = "appended"
    /\ UNCHANGED << indexerVars, ledgerVars, hashVars >>

TreeNext == BuildAndProve \/ ReplaceLeaf \/ SwapLeaves \/ AppendLeaf

SpecTree == TreeInit /\ [][TreeNext]_vars

----------------------------------------------------------------------------
(* Reference notions for the tree properties *)

\* verify(leaf, siblings, claimed_root) of the design document: hash
\* (current, sibling) along the path and compare with the claimed root
RECURSIVE VerifyFold(_, _, _)
VerifyFold(current, siblings, k) ==
    IF k > Len(siblings) THEN current
    ELSE VerifyFold(hashPair(current, siblings[k]), siblings, k + 1)

verify(leaf, siblings, claimedRoot) == VerifyFold(leaf, siblings, 1) = claimedRoot

RECURSIVE Pow2(_)
Pow2(k) == IF k = 0 THEN 1 ELSE 2 * Pow2(k - 1)

\* number of levels above the leaves of a tree over n leaves
RECURSIVE TreeHeight(_)
TreeHeight(n) == IF n <= 1 THEN 0 ELSE 1 + TreeHeight((n + 1) \div 2)

\* the nodes k levels above the leaves
RECURSIVE LevelAt(_, _)
LevelAt(leaves, k) == IF k = 0 THEN leaves ELSE NextLevel(LevelAt(leaves, k - 1))

\* digest of the node h levels above the leaves whose leftmost leaf is i,
\* defined from the root downwards: a node without a right child has its
\* left child on both sides
RECURSIVE SubRoot(_, _, _)
SubRoot(leaves, i, h) ==
    IF h = 0 THEN leaves[i]
    ELSE LET left  == SubRoot(leaves, i, h - 1)
             start == i + Pow2(h - 1)
             right == IF start <= Len(leaves)
                      THEN SubRoot(leaves, start, h - 1) ELSE left
         IN  hashPair(left, right)

AllIdentical(leaves) == \A i, j \in 1..Len(leaves) : leaves[i] = leaves[j]

Built == tPc \in { "done", "replaced", "swapped", "appended" }

----------------------------------------------------------------------------
(* Properties of the tree functions, checked under SpecTree *)

\* C1: proof round trip: for every entry list and every target, verify applied
\* to the target's leaf, the generated proof path and the built root succeeds.
C1_ProofRoundTrip ==
    (Built /\ tTarget > 0) =>
        verify(tResult.leaf, tResult.proof, tResult.root)

\* C2: for two or more leaves the proof has one sibling per level of the
\* tree, and at a level where the target node is the unpaired last node the
\* recorded sibling is the node's own digest.
C2_DuplicateSelfInProof ==
    (Built /\ Len(tEntries) >= 2) =>
        LET leaves == LeavesOf(tEntries)
            idx    == IndexOf(leaves, tResult.leaf)
            h      == TreeHeight(Len(leaves))
        IN  /\ Len(tResult.proof) = h
            /\ \A k \in 1..h :
                  LET lvl == LevelAt(leaves, k - 1)
                      pos == idx \div Pow2(k - 1)
                  IN  (pos % 2 = 0 /\ pos = Len(lvl) - 1)
                          => tResult.proof[k] = lvl[pos + 1]

\* C3: the proof carries what a verifier needs to recompute the root at odd
\* and even positions: two proofs with the same leaf and the same sibling
\* list have the same root.
C3_ProofDeterminesRoot ==
    (tPc \in { "replaced", "swapped" }
        /\ tPrev.result.leaf = tResult.leaf
        /\ tPrev.result.proof = tResult.proof)
    => tPrev.result.root = tResult.root

\* C4: the builder pairs adjacent digests left to right and pairs the last
\* digest of an odd level with itself; the root of [a,b,c] is
\* H(H(a,b), H(c,c)).
C4_PairwiseDuplicateLast ==
    (Built /\ Len(tEntries) >= 2) =>
        LET leaves == LeavesOf(tEntries)
        IN  /\ tResult.root = SubRoot(leaves, 1, TreeHeight(Len(leaves)))
            /\ Len(leaves) = 3 =>
                  tResult.root = hashPair(hashPair(leaves[1], leaves[2]),
                                          hashPair(leaves[3], leaves[3]))

W4_OddLevelBuilt ==
    /\ tPc = "done"
    /\ Len(tEntries) = 3
    /\ tResult.root # hashPair(LeavesOf(tEntries)[1], LeavesOf(tEntries)[2])

\* C5: the root of no leaves is "0x" followed by 64 zeros, and the root of a
\* single leaf is that leaf's digest.
C5_EmptyAndSingle ==
    Built =>
        /\ Len(tEntries) = 0 =>
              /\ Len(tResult.root) = 66
              /\ tResult.root[1] = CharZero
              /\ tResult.root[2] = CharX
              /\ \A i \in 3..66 : tResult.root[i] = CharZero
        /\ Len(tEntries) = 1 =>
              tResult.root = hashLeaf(tEntries[1].cid, tEntries[1].embedding,
                                      tEntries[1].timestamp)

W5_SingleLeafBuilt ==
    /\ tPc = "done"
    /\ Len(tEntries) = 1
    /\ tResult.root = tResult.leaf

\* C6: replacing one leaf of a list that is not all-identical by a different
\* value changes the root.
C6_ContentSensitive ==
    (tPc = "replaced" /\ ~ AllIdentical(LeavesOf(tPrev.entries)))
        => tResult.root # tPrev.result.root

\* C18: appending an entry with a content address not yet indexed changes
\* the root of the stream, so the next anchoring cycle submits a root other
\* than the one anchored before, whatever the number of leaves was.
C18_AppendChangesRoot ==
    tPc = "appended" => tResult.root # tPrev.result.root

----------------------------------------------------------------------------
(* The leaf digests applied to bounded inputs *)

LeafTimestamps == { 7, 1700000000 }

\* embeddings of every length up to the bound, shorter and longer than the
\* prefixes the two digests read
LeafEmbeddings == { [ i \in 1..n |-> 1 ] : n \in 0..MaxDims }

LeafEntry(cid, embedding, timestamp) ==
    IndexEntry(cid, embedding, timestamp, "s1", 0, 1)

\* the indexer's and the producer's digest of the first entry, and the root
\* of the stream that holds it
LeafResult(entries) ==
    [ leaf     |-> hashLeaf(entries[1].cid, entries[1].embedding,
                            entries[1].timestamp),
      producer |-> computeMerkleLeaf(entries[1].cid, entries[1].embedding,
                                     entries[1].timestamp),
      root     |-> computeMerkleRoot(entries) ]

\* a stream of two entries; the first one is the input
LeafInit ==
    /\ IndexerInit
    /\ HashIdle
    /\ \E c \in TreeCids \ { CidE }, e \in LeafEmbeddings, t \in LeafTimestamps :
          tEntries = << LeafEntry(c, e, t), TreeEntry(CidE) >>
    /\ tTarget = 0
    /\ tPc = "input"
    /\ tResult = NoValue
    /\ tPrev = NoValue

HashLeaves ==
    /\ tPc = "input"
    /\ tResult' = LeafResult(tEntries)
    /\ tPc' = "hashed"
    /\ UNCHANGED << tEntries, tTarget, tPrev >>
    /\ UNCHANGED << indexerVars, ledgerVars, hashVars >>

\* one component of the embedding gets another value; tTarget is its position
ChangeComponent ==
    /\ tPc = "hashed"
    /\ \E p \in 1..Len(tEntries[1].embedding), v \in { 0, 25 } :
          /\ tTarget' = p
          /\ tEntries' = [ tEntries EXCEPT ![1].embedding[p] = v ]
    /\ tPrev' = [ entries |-> tEntries, result |-> tResult ]
    /\ tResult' = LeafResult(tEntries')
    /\ tPc' = "changed"
    /\ UNCHANGED << indexerVars, ledgerVars, hashVars >>

LeafNext == HashLeaves \/ ChangeComponent

SpecLeaf == LeafInit /\ [][LeafNext]_vars

\* C25: the producer's leaf digest (CambrianMemoryTool.computeMerkleLeaf) is
\* the indexer's leaf digest (SeiIndexer.hashLeaf) of the same content
\* address, embedding and timestamp.
C25_ProducerLeafIsIndexerLeaf ==
    tPc = "hashed" => tResult.producer = tResult.leaf

\* C28: the leaf digest depends on the content address, the first ten
\* components of the embedding and the timestamp only: changing a component
\* at position eleven or later changes neither the leaf digest nor the root
\* of the stream.
C28_LeafReadsTenComponents ==
    (tPc = "changed" /\ tTarget > EmbedPrefix) =>
        /\ tResult.leaf = tPrev.result.leaf
        /\ tResult.root = tPrev.result.root
        /\ tResult.leaf = hashLeaf(tEntries[1].cid,
                                   Slice(tEntries[1].embedding, EmbedPrefix),
                                   tEntries[1].timestamp)

W28_LateComponentChanged ==
    /\ tPc = "changed"
    /\ tTarget > EmbedPrefix
    /\ tEntries[1].embedding # tPrev.entries[1].embedding
    /\ tResult.leaf = tPrev.result.leaf

----------------------------------------------------------------------------
(* The indexer: collaborators *)

IndexCids == { CidAa, CidBB }

PollInterval == 5000     \* sleep after a poll that returned
ErrorDelay   == 10000    \* sleep after a poll that threw

\* the JSON document the gateway serves for a content address; the document
\* of "BB" carries no embedding, so the embedder is called for it
IpfsDocument(cid) ==
    IF cid = CidAa
    THEN [ content |-> "a", embedding |-> << 1, 2 >>, timestamp |-> 7 ]
    ELSE [ content |-> "b", timestamp |-> 7 ]

\* what config.embedder.embed(text) resolves to when it succeeds
EmbedderOutput(text) == << 1, 2 >>

\* a MemoryAppended event as the contract query returns it; a log that could
\* not be decoded has no args
AppendEvent(streamId, cid, blockNumber) ==
    [ args        |-> [ streamId |-> streamId, cid |-> cid, merkleRoot |-> 0 ],
      blockNumber |-> blockNumber ]

UndecodedLog(blockNumber) == [ blockNumber |-> blockNumber ]

HasArgs(event) == "args" \in DOMAIN event

\* fetchMockEvents: the body is a placeholder returning []; it is modelled
\* as the query it stands for, contract.queryFilter(filter, lastProcessedBlock)
fetchMockEvents ==
    SelectSeq(chain, LAMBDA e : e.blockNumber >= lastProcessedBlock)

\* Map.prototype.set: a present key keeps its position and gets the new value
MapSet(map, key, value) ==
    IF \E i \in 1..Len(map) : map[i].cid = key
    THEN [ i \in 1..Len(map) |-> IF map[i].cid = key THEN value ELSE map[i] ]
    ELSE Append(map, value)

\* Map.prototype.has
MapHas(map, key) == \E i \in 1..Len(map) : map[i].cid = key

\* the entries of one stream, in Map order (the filter of generateMerkleProof,
\* the groups of updateIndexRoots)
StreamEntries(map, streamId) == SelectSeq(map, LAMBDA e : e.streamId = streamId)

----------------------------------------------------------------------------
(* The indexer: the listener loop *)

NewLoop ==
    [ pc        |-> "poll",      \* awaiting fetchMockEvents()
      delay     |-> 0,           \* the sleep in progress, in ms
      batch     |-> << >>,       \* events of the for-of loop not yet reached
      event     |-> NoValue,     \* the event being processed
      embedding |-> NoValue,     \* the embedding chosen for its entry
      outcome   |-> NoValue ]    \* how the last event, or the poll, ended

\* the entry processMemoryAppendedEvent builds for the loop's current event
EntryOf(loop) ==
    IndexEntry(loop.event.args.cid, loop.embedding,
               IpfsDocument(loop.event.args.cid).timestamp,
               loop.event.args.streamId, loop.event.args.merkleRoot,
               loop.event.blockNumber)

\* the for-of loop of processNewEvents moves on after an event ended with
\* the given outcome: no event left ends the poll and sleeps 5 s; an event
\* without args throws at the destructuring, outside the try, which ends the
\* poll in the catch of startEventListener and sleeps 10 s; otherwise the
\* next event's fetchFromIPFS is awaited
NextEvent(loop, batch, outcome) ==
    IF Len(batch) = 0
    THEN [ loop EXCEPT !.pc = "sleep", !.delay = PollInterval, !.batch = << >>,
                       !.event = NoValue, !.embedding = NoValue,
                       !.outcome = outcome ]
    ELSE IF ~ HasArgs(Head(batch))
    THEN [ loop EXCEPT !.pc = "sleep", !.delay = ErrorDelay,
                       !.batch = Tail(batch),
                       !.event = NoValue, !.embedding = NoValue,
                       !.outcome = "thrown" ]
    ELSE [ loop EXCEPT !.pc = "fetch", !.delay = 0, !.batch = Tail(batch),
                       !.event = Head(batch), !.embedding = NoValue,
                       !.outcome = outcome ]

\* start(): sets isRunning and enters startEventListener, whose first
\* iteration calls processNewEvents and awaits fetchMockEvents
Start ==
    /\ Len(loops) < MaxLoops
    /\ isRunning' = TRUE
    /\ loops' = Append(loops, NewLoop)
    /\ UNCHANGED << lastProcessedBlock, indexEntries, vectorStore, chain, polls >>
    /\ UNCHANGED << anchorVars, searchVars, treeVars, hashVars, ledgerVars >>

\* stop()
Stop ==
    /\ isRunning
    /\ isRunning' = FALSE
    /\ UNCHANGED << lastProcessedBlock, indexEntries, vectorStore, chain,
                    loops, polls >>
    /\ UNCHANGED << anchorVars, searchVars, treeVars, hashVars, ledgerVars >>

\* the registry emits one more event
LedgerAppend ==
    /\ Len(chain) < MaxEvents
    /\ \E ev \in { AppendEvent(s, c, Len(chain) + 1) : s \in Streams, c \in IndexCids }
                 \cup { UndecodedLog(Len(chain) + 1) } :
          chain' = Append(chain, ev)
    /\ UNCHANGED << isRunning, lastProcessedBlock, indexEntries, vectorStore,
                    loops, polls >>
    /\ UNCHANGED << anchorVars, searchVars, treeVars, hashVars, ledgerVars >>

\* variant: the sleep after a failed poll is the normal interval
PollFailsShortDelay(i) ==
    /\ loops[i].pc = "poll"
    /\ polls < MaxPolls
    /\ polls' = polls + 1
    /\ loops' = [ loops EXCEPT ![i] =
                    [ @ EXCEPT !.pc = "sleep", !.delay = PollInterval,
                               !.outcome = "pollFailed" ] ]
    /\ UNCHANGED << isRunning, lastProcessedBlock, indexEntries, vectorStore, chain >>
    /\ UNCHANGED << anchorVars, searchVars, treeVars, hashVars, ledgerVars >>

\* processNewEvents: the event query throws
PollFails(i) ==
    /\ loops[i].pc = "poll"
    /\ polls < MaxPolls
    /\ polls' = polls + 1
    /\ loops' = [ loops EXCEPT ![i] =
                    [ @ EXCEPT !.pc = "sleep", !.delay = ErrorDelay,
                               !.outcome = "pollFailed" ] ]
    /\ UNCHANGED << isRunning, lastProcessedBlock, indexEntries, vectorStore, chain >>
    /\ UNCHANGED << anchorVars, searchVars, treeVars, hashVars, ledgerVars >>

\* processNewEvents: the event query returns and the for-of loop starts
PollReturns(i) ==
    /\ loops[i].pc = "poll"
    /\ polls < MaxPolls
    /\ polls' = polls + 1
    /\ loops' = [ loops EXCEPT ![i] = NextEvent(@, fetchMockEvents, NoValue) ]
    /\ UNCHANGED << isRunning, lastProcessedBlock, indexEntries, vectorStore, chain >>
    /\ UNCHANGED << anchorVars, searchVars, treeVars, hashVars, ledgerVars >>

\* fetchFromIPFS resolves to null: warn and return
FetchFails(i) ==
    /\ loops[i].pc = "fetch"
    /\ loops' = [ loops EXCEPT ![i] = NextEvent(@, @.batch, "skipped") ]
    /\ UNCHANGED << isRunning, lastProcessedBlock, indexEntries, vectorStore,
                    chain, polls >>
    /\ UNCHANGED << anchorVars, searchVars, treeVars, hashVars, ledgerVars >>

\* fetchFromIPFS resolves to the document: its embedding is taken when it
\* has one and storeInVectorDB is called, else generateEmbedding is awaited
FetchReturns(i) ==
    /\ loops[i].pc = "fetch"
    /\ LET doc == IpfsDocument(loops[i].event.args.cid)
       IN  loops' = [ loops EXCEPT ![i] =
                        IF "embedding" \in DOMAIN doc
                        THEN [ @ EXCEPT !.pc = "store", !.embedding = doc.embedding ]
                        ELSE [ @ EXCEPT !.pc = "embed" ] ]
    /\ UNCHANGED << isRunning, lastProcessedBlock, indexEntries, vectorStore,
                    chain, polls >>
    /\ UNCHANGED << anchorVars, searchVars, treeVars, hashVars, ledgerVars >>

\* generateEmbedding: embedder.embed throws, the catch returns []
EmbedFails(i) ==
    /\ loops[i].pc = "embed"
    /\ loops' = [ loops EXCEPT ![i] = [ @ EXCEPT !.pc = "store", !.embedding = << >> ] ]
    /\ UNCHANGED << isRunning, lastProcessedBlock, indexEntries, vectorStore,
                    chain, polls >>
    /\ UNCHANGED << anchorVars, searchVars, treeVars, hashVars, ledgerVars >>

\* generateEmbedding: embedder.embed resolves
EmbedReturns(i) ==
    /\ loops[i].pc = "embed"
    /\ loops' = [ loops EXCEPT ![i] =
                    [ @ EXCEPT !.pc = "store",
                               !.embedding = EmbedderOutput(
                                   IpfsDocument(@.event.args.cid).content) ] ]
    /\ UNCHANGED << isRunning, lastProcessedBlock, indexEntries, vectorStore,
                    chain, polls >>
    /\ UNCHANGED << anchorVars, searchVars, treeVars, hashVars, ledgerVars >>

\* variant: the rejected insert is logged and the entry is indexed anyway
StoreFailsIndexes(i) ==
    /\ loops[i].pc = "store"
    /\ indexEntries' = MapSet(indexEntries, loops[i].event.args.cid, EntryOf(loops[i]))
    /\ loops' = [ loops EXCEPT ![i] = NextEvent(@, @.batch, "error") ]
    /\ UNCHANGED << isRunning, lastProcessedBlock, vectorStore, chain, polls >>
    /\ UNCHANGED << anchorVars, searchVars, treeVars, hashVars, ledgerVars >>

\* storeInVectorDB: vectorStore.insert rejects; rethrown, caught and logged
\* by processMemoryAppendedEvent
StoreFails(i) ==
    /\ loops[i].pc = "store"
    /\ loops' = [ loops EXCEPT ![i] = NextEvent(@, @.batch, "error") ]
    /\ UNCHANGED << isRunning, lastProcessedBlock, indexEntries, vectorStore,
                    chain, polls >>
    /\ UNCHANGED << anchorVars, searchVars, treeVars, hashVars, ledgerVars >>

\* storeInVectorDB: the vector store takes the insert
StoreReturns(i) ==
    /\ loops[i].pc = "store"
    /\ LET entry == EntryOf(loops[i])
       IN  vectorStore' = Append(vectorStore,
                                 [ id      |-> entry.cid,
                                   vector  |-> entry.embedding,
                                   payload |-> entry.metadata ])
    /\ loops' = [ loops EXCEPT ![i] = [ @ EXCEPT !.pc = "set" ] ]
    /\ UNCHANGED << isRunning, lastProcessedBlock, indexEntries, chain, polls >>
    /\ UNCHANGED << anchorVars, searchVars, treeVars, hashVars, ledgerVars >>

\* processMemoryAppendedEvent after the insert: indexEntries.set, log
SetEntry(i) ==
    /\ loops[i].pc = "set"
    /\ indexEntries' = MapSet(indexEntries, loops[i].event.args.cid, EntryOf(loops[i]))
    /\ loops' = [ loops EXCEPT ![i] = NextEvent(@, @.batch, "indexed") ]
    /\ UNCHANGED << isRunning, lastProcessedBlock, vectorStore, chain, polls >>
    /\ UNCHANGED << anchorVars, searchVars, treeVars, hashVars, ledgerVars >>

\* variant: the sleep is followed by the next poll whatever isRunning is
WakeAlways(i) ==
    /\ loops[i].pc = "sleep"
    /\ loops' = [ loops EXCEPT ![i] = [ @ EXCEPT !.pc = "poll", !.delay = 0 ] ]
    /\ timers' = timers
    /\ UNCHANGED << isRunning, lastProcessedBlock, indexEntries, vectorStore,
                    chain, polls >>
    /\ UNCHANGED << ticks, cycles, rootCalls, indexRoot >>
    /\ UNCHANGED << searchVars, treeVars, hashVars, ledgerVars >>

\* a sleep ends and the while condition is evaluated; when it is false
\* startEventListener returns, start() resumes after its await and calls
\* startIndexRootUpdater, which installs one more interval timer
Wake(i) ==
    /\ loops[i].pc = "sleep"
    /\ loops' = [ loops EXCEPT ![i] =
                    IF isRunning
                    THEN [ @ EXCEPT !.pc = "poll", !.delay = 0 ]
                    ELSE [ @ EXCEPT !.pc = "exited", !.delay = 0 ] ]
    /\ timers' = IF isRunning THEN timers ELSE timers + 1
    /\ UNCHANGED << isRunning, lastProcessedBlock, indexEntries, vectorStore,
                    chain, polls >>
    /\ UNCHANGED << ticks, cycles, rootCalls, indexRoot >>
    /\ UNCHANGED << searchVars, treeVars, hashVars, ledgerVars >>

----------------------------------------------------------------------------
(* The indexer: periodic index root updates *)

\* variant: the entry is put at the front of its stream's group
GroupPushFront(groups, entry) ==
    IF \E g \in 1..Len(groups) : groups[g].streamId = entry.streamId
    THEN [ g \in 1..Len(groups) |->
             IF groups[g].streamId = entry.streamId
             THEN [ groups[g] EXCEPT !.entries = << entry >> \o @ ]
             ELSE groups[g] ]
    ELSE Append(groups, [ streamId |-> entry.streamId, entries |-> << entry >> ])

\* updateIndexRoots, the body of the grouping loop: the entry is pushed to
\* its stream's group, which is created at the end of the Map when missing
GroupPush(groups, entry) ==
    IF \E g \in 1..Len(groups) : groups[g].streamId = entry.streamId
    THEN [ g \in 1..Len(groups) |->
             IF groups[g].streamId = entry.streamId
             THEN [ groups[g] EXCEPT !.entries = Append(@, entry) ]
             ELSE groups[g] ]
    ELSE Append(groups, [ streamId |-> entry.streamId, entries |-> << entry >> ])

\* updateIndexRoots, the grouping loop over indexEntries.values()
RECURSIVE GroupLoop(_, _, _)
GroupLoop(map, i, groups) ==
    IF i > Len(map) THEN groups
    ELSE GroupLoop(map, i + 1, GroupPush(groups, map[i]))

\* variant: one group per registered stream, with or without entries
streamGroupsAll(map) ==
    [ g \in 1..2 |-> [ streamId |-> << "s1", "s2" >>[g],
                       entries  |-> StreamEntries(map, << "s1", "s2" >>[g]) ] ]

streamGroups(map) == GroupLoop(map, 1, << >>)

\* MemoryRegistry.setIndexRoot, once the transaction is mined
setIndexRoot(roots, streamId, root) == [ roots EXCEPT ![streamId] = root ]

\* one iteration of the for-of loop of updateIndexRoots up to its await: the
\* root of the group is computed and setIndexRootOnChain is called with it.
\* The body of setIndexRootOnChain is a placeholder that only logs; it is
\* modelled as the call it stands for, registryContract.setIndexRoot(...)
\* followed by tx.wait()
NewCall(group) ==
    [ streamId   |-> group.streamId,
      merkleRoot |-> computeMerkleRoot(group.entries),
      status     |-> "pending" ]

RemoveAt(seq, i) == SubSeq(seq, 1, i - 1) \o SubSeq(seq, i + 1, Len(seq))

\* variant: the timer callback calls updateIndexRoots whatever isRunning is
updateIndexRootsUnguarded ==
    /\ timers > 0
    /\ ticks < MaxCycles
    /\ ticks' = ticks + 1
    /\ LET groups == streamGroups(indexEntries)
       IN  IF Len(groups) = 0
           THEN UNCHANGED << cycles, rootCalls >>
           ELSE /\ rootCalls' = Append(rootCalls, NewCall(Head(groups)))
                /\ cycles' = Append(cycles, [ groups |-> groups,
                                              call   |-> Len(rootCalls) + 1 ])
    /\ UNCHANGED << isRunning, lastProcessedBlock, indexEntries, vectorStore,
                    chain, loops, polls, timers, indexRoot >>
    /\ UNCHANGED << searchVars, treeVars, hashVars, ledgerVars >>

\* the timer callback of startIndexRootUpdater fires while isRunning holds:
\* updateIndexRoots groups the entries and calls setIndexRootOnChain for the
\* first group; with no entry the call returns at once
updateIndexRoots ==
    /\ timers > 0
    /\ isRunning
    /\ ticks < MaxCycles
    /\ ticks' = ticks + 1
    /\ LET groups == streamGroups(indexEntries)
       IN  IF Len(groups) = 0
           THEN UNCHANGED << cycles, rootCalls >>
           ELSE /\ rootCalls' = Append(rootCalls, NewCall(Head(groups)))
                /\ cycles' = Append(cycles, [ groups |-> groups,
                                              call   |-> Len(rootCalls) + 1 ])
    /\ UNCHANGED << isRunning, lastProcessedBlock, indexEntries, vectorStore,
                    chain, loops, polls, timers, indexRoot >>
    /\ UNCHANGED << searchVars, treeVars, hashVars, ledgerVars >>

\* variant: a failed call ends the cycle
CallSettledAborts(c, status) ==
    LET rest    == Tail(cycles[c].groups)
        settled == [ rootCalls EXCEPT ![cycles[c].call].status = status ]
    IN  IF Len(rest) = 0 \/ status = "failed"
        THEN /\ rootCalls' = settled
             /\ cycles' = RemoveAt(cycles, c)
        ELSE /\ rootCalls' = Append(settled, NewCall(Head(rest)))
             /\ cycles' = [ cycles EXCEPT ![c] =
                              [ groups |-> rest, call |-> Len(rootCalls) + 1 ] ]

\* the await of setIndexRootOnChain ends with the given status: the for-of
\* loop moves to the next group, or updateIndexRoots returns
CallSettled(c, status) ==
    LET rest    == Tail(cycles[c].groups)
        settled == [ rootCalls EXCEPT ![cycles[c].call].status = status ]
    IN  IF Len(rest) = 0
        THEN /\ rootCalls' = settled
             /\ cycles' = RemoveAt(cycles, c)
        ELSE /\ rootCalls' = Append(settled, NewCall(Head(rest)))
             /\ cycles' = [ cycles EXCEPT ![c] =
                              [ groups |-> rest, call |-> Len(rootCalls) + 1 ] ]

\* setIndexRootOnChain: the transaction is mined
SetIndexRootConfirmed(c) ==
    /\ indexRoot' = setIndexRoot(indexRoot, rootCalls[cycles[c].call].streamId,
                                 rootCalls[cycles[c].call].merkleRoot)
    /\ CallSettled(c, "confirmed")
    /\ UNCHANGED << isRunning, lastProcessedBlock, indexEntries, vectorStore,
                    chain, loops, polls, timers, ticks >>
    /\ UNCHANGED << searchVars, treeVars, hashVars, ledgerVars >>

\* variant: the root is recorded as anchored although the call failed
SetIndexRootFailsWrites(c) ==
    /\ indexRoot' = setIndexRoot(indexRoot, rootCalls[cycles[c].call].streamId,
                                 rootCalls[cycles[c].call].merkleRoot)
    /\ CallSettled(c, "failed")
    /\ UNCHANGED << isRunning, lastProcessedBlock, indexEntries, vectorStore,
                    chain, loops, polls, timers, ticks >>
    /\ UNCHANGED << searchVars, treeVars, hashVars, ledgerVars >>

\* setIndexRootOnChain: the call or tx.wait() rejects; caught and logged
SetIndexRootFails(c) ==
    /\ indexRoot' = indexRoot
    /\ CallSettled(c, "failed")
    /\ UNCHANGED << isRunning, lastProcessedBlock, indexEntries, vectorStore,
                    chain, loops, polls, timers, ticks >>
    /\ UNCHANGED << searchVars, treeVars, hashVars, ledgerVars >>

----------------------------------------------------------------------------
(* The indexer: verified search *)

SearchK == 5     \* default of the parameter k of search()

\* Map.prototype.get for a present key
MapGet(map, key) == map[CHOOSE i \in 1..Len(map) : map[i].cid = key]

\* generateMerkleProof for a content address the index holds: the tree is
\* built over the entries of the stream the entry itself names
generateMerkleProof(map, cid) ==
    ProofRecord(StreamEntries(map, MapGet(map, cid).streamId), MapGet(map, cid))

\* config.vectorStore.search(queryEmbedding, k, { streamId }): the records
\* inserted with that stream in their payload, one per id, in insertion
\* order, k at most
RECURSIVE FirstPerId(_, _)
FirstPerId(records, i) ==
    IF i > Len(records) THEN << >>
    ELSE IF \E j \in 1..(i - 1) : records[j].id = records[i].id
    THEN FirstPerId(records, i + 1)
    ELSE << records[i] >> \o FirstPerId(records, i + 1)

VectorSearch(store, streamId, k) ==
    LET matching == FirstPerId(SelectSeq(store,
                        LAMBDA r : r.payload.streamId = streamId), 1)
    IN  SubSeq(matching, 1, IF Len(matching) < k THEN Len(matching) ELSE k)

NewSearch(streamId) ==
    [ pc       |-> "embed",     \* awaiting generateEmbedding(query)
      streamId |-> streamId,
      hits     |-> << >>,       \* results of the vector store not yet pushed
      pending  |-> << >>,       \* the proof whose await is in progress
      results  |-> << >>,       \* verifiedResults
      error    |-> "none" ]     \* why the call threw

\* the for-of loop of search reaches the next result: generateMerkleProof
\* runs up to its return or throw, then search awaits it; a throw is caught,
\* logged and rethrown by search; with no result left search returns
ProveNext(q, hits, results) ==
    IF Len(hits) = 0
    THEN [ q EXCEPT !.pc = "returned", !.hits = << >>, !.pending = << >>,
                    !.results = results ]
    ELSE IF ~ MapHas(indexEntries, Head(hits).id)
    THEN [ q EXCEPT !.pc = "failed", !.hits = hits, !.pending = << >>,
                    !.results = << >>, !.error = "notFound" ]
    ELSE [ q EXCEPT !.pc = "prove", !.hits = hits,
                    !.pending = << generateMerkleProof(indexEntries, Head(hits).id) >>,
                    !.results = results ]

\* search(streamId, query, k) is called and awaits generateEmbedding
SearchCall ==
    /\ Len(searches) < MaxSearches
    /\ \E s \in Streams : searches' = Append(searches, NewSearch(s))
    /\ UNCHANGED << isRunning, lastProcessedBlock, indexEntries, vectorStore,
                    chain, loops, polls >>
    /\ UNCHANGED << anchorVars, treeVars, hashVars, ledgerVars >>

\* generateEmbedding resolves, to the embedding or to [] when the embedder
\* threw; vectorStore.search is called with it
QueryEmbedded(n) ==
    /\ searches[n].pc = "embed"
    /\ searches' = [ searches EXCEPT ![n] = [ @ EXCEPT !.pc = "query" ] ]
    /\ UNCHANGED << isRunning, lastProcessedBlock, indexEntries, vectorStore,
                    chain, loops, polls >>
    /\ UNCHANGED << anchorVars, treeVars, hashVars, ledgerVars >>

\* vectorStore.search rejects: caught, logged and rethrown
VectorSearchFails(n) ==
    /\ searches[n].pc = "query"
    /\ searches' = [ searches EXCEPT ![n] =
                       [ @ EXCEPT !.pc = "failed", !.error = "vectorStore" ] ]
    /\ UNCHANGED << isRunning, lastProcessedBlock, indexEntries, vectorStore,
                    chain, loops, polls >>
    /\ UNCHANGED << anchorVars, treeVars, hashVars, ledgerVars >>

\* vectorStore.search resolves and the for-of loop starts
VectorSearchReturns(n) ==
    /\ searches[n].pc = "query"
    /\ searches' = [ searches EXCEPT ![n] =
                       ProveNext(@, VectorSearch(vectorStore, @.streamId, SearchK),
                                 << >>) ]
    /\ UNCHANGED << isRunning, lastProcessedBlock, indexEntries, vectorStore,
                    chain, loops, polls >>
    /\ UNCHANGED << anchorVars, treeVars, hashVars, ledgerVars >>

\* variant: the root of the proof is read again when the await ends
ProofAwaitedRereads(n) ==
    /\ searches[n].pc = "prove"
    /\ searches' = [ searches EXCEPT ![n] =
                       ProveNext(@, Tail(@.hits),
                                 Append(@.results,
                                        [ id      |-> Head(@.hits).id,
                                          payload |-> Head(@.hits).payload,
                                          proof   |->
                                            [ @.pending[1] EXCEPT !.root =
                                                generateMerkleProof(indexEntries,
                                                    Head(searches[n].hits).id).root ] ])) ]
    /\ UNCHANGED << isRunning, lastProcessedBlock, indexEntries, vectorStore,
                    chain, loops, polls >>
    /\ UNCHANGED << anchorVars, treeVars, hashVars, ledgerVars >>

\* the await of generateMerkleProof ends: the result is pushed with its
\* proof and the loop moves on
ProofAwaited(n) ==
    /\ searches[n].pc = "prove"
    /\ searches' = [ searches EXCEPT ![n] =
                       ProveNext(@, Tail(@.hits),
                                 Append(@.results,
                                        [ id      |-> Head(@.hits).id,
                                          payload |-> Head(@.hits).payload,
                                          proof   |-> @.pending[1] ])) ]
    /\ UNCHANGED << isRunning, lastProcessedBlock, indexEntries, vectorStore,
                    chain, loops, polls >>
    /\ UNCHANGED << anchorVars, treeVars, hashVars, ledgerVars >>

----------------------------------------------------------------------------
(* The two root computations applied to bounded index states *)

\* indexes as the Map can hold them: every content address once, each entry
\* in one of the streams
RECURSIVE IndexStates(_)
IndexStates(n) ==
    IF n = 0 THEN { << >> }
    ELSE LET shorter == IndexStates(n - 1)
         IN  shorter \cup
             { Append(m, IndexEntry(c, << 1, 2 >>, 7, s, 0, Len(m) + 1)) :
                 m \in { x \in shorter : Len(x) = n - 1 },
                 c \in TreeCids, s \in Streams }

\* the calls one run of updateIndexRoots issues on an index, and the proof
\* search attaches to the entry at the target position of the same index
RootsResult(map, target) ==
    [ calls |-> [ g \in 1..Len(streamGroups(map)) |-> NewCall(streamGroups(map)[g]) ],
      proof |-> generateMerkleProof(map, map[target].cid) ]

RootsInit ==
    /\ IndexerInit
    /\ HashIdle
    /\ tEntries \in { m \in IndexStates(MaxIndexed) :
                        /\ Len(m) > 0
                        /\ \A i, j \in 1..Len(m) : m[i].cid = m[j].cid => i = j }
    /\ tTarget \in 1..Len(tEntries)
    /\ tPc = "index"
    /\ tResult = NoValue
    /\ tPrev = NoValue

\* run the anchoring path and the search path on the index
AnchorAndProve ==
    /\ tPc = "index"
    /\ tResult' = RootsResult(tEntries, tTarget)
    /\ tPc' = "anchored"
    /\ UNCHANGED << tEntries, tTarget, tPrev >>
    /\ UNCHANGED << indexerVars, ledgerVars, hashVars >>

RootsNext == AnchorAndProve

SpecRoots == RootsInit /\ [][RootsNext]_vars

Init == IndexerInit /\ TreeIdle /\ HashIdle

Next ==
    \/ Start
    \/ Stop
    \/ LedgerAppend
    \/ \E i \in 1..Len(loops) : PollFails(i)
    \/ \E i \in 1..Len(loops) : PollReturns(i)
    \/ \E i \in 1..Len(loops) : FetchFails(i)
    \/ \E i \in 1..Len(loops) : FetchReturns(i)
    \/ \E i \in 1..Len(loops) : EmbedFails(i)
    \/ \E i \in 1..Len(loops) : EmbedReturns(i)
    \/ \E i \in 1..Len(loops) : StoreFails(i)
    \/ \E i \in 1..Len(loops) : StoreReturns(i)
    \/ \E i \in 1..Len(loops) : SetEntry(i)
    \/ \E i \in 1..Len(loops) : Wake(i)
    \/ updateIndexRoots
    \/ \E c \in 1..Len(cycles) : SetIndexRootConfirmed(c)
    \/ \E c \in 1..Len(cycles) : SetIndexRootFails(c)

Spec == Init /\ [][Next]_vars

\* calls of search() beside the listener loops of an indexer that is not
\* stopped; search reads the index and the vector store and writes nothing
\* the loops read
SearchNext ==
    \/ Start
    \/ LedgerAppend
    \/ \E i \in 1..Len(loops) : PollFails(i)
    \/ \E i \in 1..Len(loops) : PollReturns(i)
    \/ \E i \in 1..Len(loops) : FetchFails(i)
    \/ \E i \in 1..Len(loops) : FetchReturns(i)
    \/ \E i \in 1..Len(loops) : EmbedFails(i)
    \/ \E i \in 1..Len(loops) : EmbedReturns(i)
    \/ \E i \in 1..Len(loops) : StoreFails(i)
    \/ \E i \in 1..Len(loops) : StoreReturns(i)
    \/ \E i \in 1..Len(loops) : SetEntry(i)
    \/ \E i \in 1..Len(loops) : Wake(i)
    \/ SearchCall
    \/ \E n \in 1..Len(searches) : QueryEmbedded(n)
    \/ \E n \in 1..Len(searches) : VectorSearchFails(n)
    \/ \E n \in 1..Len(searches) : VectorSearchReturns(n)
    \/ \E n \in 1..Len(searches) : ProofAwaited(n)

SpecSearch == Init /\ [][SearchNext]_vars

\* a running indexer whose anchoring timer is installed: the state after
\* start(), stop(), the exit of the first listener loop (one poll of an empty
\* ledger, then the sleep) and a second start()
ExitedLoop == [ NewLoop EXCEPT !.pc = "exited" ]

SnapshotInit ==
    /\ isRunning = TRUE
    /\ lastProcessedBlock = 0
    /\ indexEntries = << >>
    /\ vectorStore = << >>
    /\ chain = << >>
    /\ loops = << ExitedLoop, NewLoop >>
    /\ polls = 1
    /\ timers = 1
    /\ ticks = 0
    /\ cycles = << >>
    /\ rootCalls = << >>
    /\ indexRoot = [ s \in Streams |-> ZeroRoot ]
    /\ searches = << >>
    /\ LedgerInit
    /\ TreeIdle
    /\ HashIdle

\* the second listener loop, the anchoring cycles and calls of search()
\* beside each other
SnapshotNext ==
    \/ LedgerAppend
    \/ \E i \in 1..Len(loops) : PollFails(i)
    \/ \E i \in 1..Len(loops) : PollReturns(i)
    \/ \E i \in 1..Len(loops) : FetchFails(i)
    \/ \E i \in 1..Len(loops) : FetchReturns(i)
    \/ \E i \in 1..Len(loops) : EmbedFails(i)
    \/ \E i \in 1..Len(loops) : EmbedReturns(i)
    \/ \E i \in 1..Len(loops) : StoreFails(i)
    \/ \E i \in 1..Len(loops) : StoreReturns(i)
    \/ \E i \in 1..Len(loops) : SetEntry(i)
    \/ \E i \in 1..Len(loops) : Wake(i)
    \/ updateIndexRoots
    \/ \E c \in 1..Len(cycles) : SetIndexRootConfirmed(c)
    \/ \E c \in 1..Len(cycles) : SetIndexRootFails(c)
    \/ SearchCall
    \/ \E n \in 1..Len(searches) : QueryEmbedded(n)
    \/ \E n \in 1..Len(searches) : VectorSearchFails(n)
    \/ \E n \in 1..Len(searches) : VectorSearchReturns(n)
    \/ \E n \in 1..Len(searches) : ProofAwaited(n)

SpecSnapshot == SnapshotInit /\ [][SnapshotNext]_vars

----------------------------------------------------------------------------
(* The contracts: MemoryAccess and MemoryRegistry *)

\* a transaction is mined: it succeeded or it reverted
MinedFor(fn, sender, streamId, owner, ok) ==
    /\ txCount < MaxTxs
    /\ txCount' = txCount + 1
    /\ lastTx' = [ fn |-> fn, sender |-> sender, streamId |-> streamId,
                   owner |-> owner,
                   status |-> IF ok THEN "success" ELSE "reverted" ]

\* a transaction of a function that takes no owner argument
Mined(fn, sender, streamId, ok) ==
    MinedFor(fn, sender, streamId, ZeroAddress, ok)

\* the hash of the n-th transaction: 32 bytes that no mock hash equals
TxHash(n) == Prefix0x \o PadStart(ToString16(<< 0, n >>), 64, 102)

\* MemoryAccess.isAuthorized; the test of policies[streamId]["public"] returns
\* true for a role that the last line returns true for as well
isAuthorized(streamId, addr, capability) ==
    LET auth == authorizations[<< streamId, addr, capability >>]
    IN  IF auth.revoked \/ auth.role = "NONE" THEN FALSE
        ELSE auth.role # "NONE"

\* MemoryAccess.authorize
authorize(sender, streamId, addr, capability, role) ==
    LET ok == /\ addr # ZeroAddress
              /\ role # "NONE"
              /\ \/ isAuthorized(streamId, sender, "ADMIN")
                 \/ isAuthorized(streamId, sender, "OWNER")
    IN  /\ Mined("authorize", sender, streamId, ok)
        /\ authorizations' =
              IF ok
              THEN [ authorizations EXCEPT ![<< streamId, addr, capability >>] =
                       [ role |-> role, revoked |-> FALSE ] ]
              ELSE authorizations
        /\ UNCHANGED << streams, streamHistory, memoryAppended >>

\* modifier onlyStreamOwner
onlyStreamOwner(streamId, sender) ==
    /\ streams[streamId].exists
    /\ streams[streamId].owner = sender

\* variant: the modifier requires the stream to exist and nothing else
onlyAuthorizedIndexerAnyone(streamId, sender) ==
    streams[streamId].exists

\* modifier onlyAuthorizedIndexer
onlyAuthorizedIndexer(streamId, sender) ==
    /\ streams[streamId].exists
    /\ \/ streams[streamId].authorizedIndexer = sender
       \/ streams[streamId].owner = sender

\* variant: registration does not require the stream to be new
registerStreamAgain(sender, streamId, owner, policy) ==
    LET ok == owner # ZeroAddress
    IN  /\ MinedFor("registerStream", sender, streamId, owner, ok)
        /\ streams' =
              IF ok
              THEN [ streams EXCEPT ![streamId] =
                       [ owner             |-> owner,
                         policy            |-> policy,
                         latestCID         |-> << >>,
                         latestMerkleRoot  |-> ZeroRoot,
                         lastUpdated       |-> txCount + 1,
                         indexRoot         |-> ZeroRoot,
                         authorizedIndexer |-> ZeroAddress,
                         exists            |-> TRUE ] ]
              ELSE streams
        /\ UNCHANGED << streamHistory, authorizations, memoryAppended >>

\* MemoryRegistry.registerStream; block.timestamp is the transaction's number
registerStream(sender, streamId, owner, policy) ==
    LET ok == ~ streams[streamId].exists /\ owner # ZeroAddress
    IN  /\ MinedFor("registerStream", sender, streamId, owner, ok)
        /\ streams' =
              IF ok
              THEN [ streams EXCEPT ![streamId] =
                       [ owner             |-> owner,
                         policy            |-> policy,
                         latestCID         |-> << >>,
                         latestMerkleRoot  |-> ZeroRoot,
                         lastUpdated       |-> txCount + 1,
                         indexRoot         |-> ZeroRoot,
                         authorizedIndexer |-> ZeroAddress,
                         exists            |-> TRUE ] ]
              ELSE streams
        /\ UNCHANGED << streamHistory, authorizations, memoryAppended >>

\* variant: the head is written and the content address is not pushed
appendHeadOnly(sender, streamId, cid, merkleRoot) ==
    LET ok == /\ streams[streamId].exists
              /\ \/ isAuthorized(streamId, sender, "WRITE")
                 \/ streams[streamId].owner = sender
    IN  /\ Mined("append", sender, streamId, ok)
        /\ streams' =
              IF ok
              THEN [ streams EXCEPT ![streamId].latestCID = cid,
                                    ![streamId].latestMerkleRoot = merkleRoot,
                                    ![streamId].lastUpdated = txCount + 1 ]
              ELSE streams
        /\ memoryAppended' =
              IF ok
              THEN Append(memoryAppended,
                          [ streamId |-> streamId, cid |-> cid,
                            merkleRoot |-> merkleRoot,
                            hash |-> TxHash(txCount + 1) ])
              ELSE memoryAppended
        /\ UNCHANGED << streamHistory, authorizations >>

\* MemoryRegistry.append
append(sender, streamId, cid, merkleRoot) ==
    LET ok == /\ streams[streamId].exists
              /\ \/ isAuthorized(streamId, sender, "WRITE")
                 \/ streams[streamId].owner = sender
    IN  /\ Mined("append", sender, streamId, ok)
        /\ streams' =
              IF ok
              THEN [ streams EXCEPT ![streamId].latestCID = cid,
                                    ![streamId].latestMerkleRoot = merkleRoot,
                                    ![streamId].lastUpdated = txCount + 1 ]
              ELSE streams
        /\ streamHistory' =
              IF ok
              THEN [ streamHistory EXCEPT ![streamId] = Append(@, cid) ]
              ELSE streamHistory
        /\ memoryAppended' =
              IF ok
              THEN Append(memoryAppended,
                          [ streamId |-> streamId, cid |-> cid,
                            merkleRoot |-> merkleRoot,
                            hash |-> TxHash(txCount + 1) ])
              ELSE memoryAppended
        /\ UNCHANGED authorizations

\* MemoryRegistry.setIndexRoot, called by any account
setIndexRootBy(sender, streamId, root) ==
    LET ok == onlyAuthorizedIndexer(streamId, sender)
    IN  /\ Mined("setIndexRoot", sender, streamId, ok)
        /\ streams' =
              IF ok
              THEN [ streams EXCEPT ![streamId].indexRoot = root ]
              ELSE streams
        /\ UNCHANGED << streamHistory, authorizations, memoryAppended >>

\* MemoryRegistry.setAuthorizedIndexer
setAuthorizedIndexer(sender, streamId, indexer) ==
    LET ok == onlyStreamOwner(streamId, sender)
    IN  /\ Mined("setAuthorizedIndexer", sender, streamId, ok)
        /\ streams' =
              IF ok
              THEN [ streams EXCEPT ![streamId].authorizedIndexer = indexer ]
              ELSE streams
        /\ UNCHANGED << streamHistory, authorizations, memoryAppended >>

\* MemoryRegistry.setPolicy
setPolicy(sender, streamId, policy) ==
    LET ok == onlyStreamOwner(streamId, sender)
    IN  /\ Mined("setPolicy", sender, streamId, ok)
        /\ streams' =
              IF ok
              THEN [ streams EXCEPT ![streamId].policy = policy ]
              ELSE streams
        /\ UNCHANGED << streamHistory, authorizations, memoryAppended >>

\* the roots and content addresses accounts pass to the registry
LedgerRoots == { ZeroRoot, hashPair(ZeroRoot, ZeroRoot) }
LedgerCids  == { CidAa, CidBB }

\* a transaction sent by an account other than through MemoryClient.add
AccountTx ==
    /\ \E sender \in Addresses, s \in Streams :
          \/ \E owner \in Addresses \cup { ZeroAddress } :
                registerStream(sender, s, owner, "default")
          \/ \E cid \in LedgerCids : append(sender, s, cid, ZeroRoot)
          \/ \E root \in LedgerRoots : setIndexRootBy(sender, s, root)
          \/ \E indexer \in Addresses \cup { ZeroAddress } :
                setAuthorizedIndexer(sender, s, indexer)
          \/ setPolicy(sender, s, "public")
          \/ \E addr \in Addresses : authorize(sender, s, addr, "WRITE", "AGENT")
    /\ UNCHANGED adds
    /\ UNCHANGED << indexerVars, treeVars, hashVars, vaultVars >>

----------------------------------------------------------------------------
(* The client: MemoryClient.add *)

NoSigner == "none"

CharQ      == 81     \* "Q"
CharLowerM == 109    \* "m"

\* String.prototype.padEnd(n, c)
PadEnd(str, n, c) ==
    IF Len(str) >= n THEN str ELSE str \o [ i \in 1..(n - Len(str)) |-> c ]

\* Number.prototype.toString(36) of a non-negative magnitude, by long
\* division of its two 16-bit limbs
Base36Char(d) == IF d < 10 THEN CharZero + d ELSE 87 + d

RECURSIVE ToString36(_)
ToString36(m) ==
    LET low  == (m[1] % 36) * Two16 + m[2]
        quot == << m[1] \div 36, low \div 36 >>
    IN  IF quot = << 0, 0 >> THEN << Base36Char(low % 36) >>
        ELSE ToString36(quot) \o << Base36Char(low % 36) >>

\* MemoryClient._simpleHash
clientSimpleHash(input) == MathAbs(HashLoop(<<0, 0>>, input, 1, Len(input)))

\* the mock content address _uploadToIPFS falls back to
MockCid(json) ==
    << CharQ, CharLowerM >> \o PadEnd(ToString36(clientSimpleHash(json)), 44, CharZero)

\* the mock transaction hash _appendToSeiRegistry falls back to
MockTxHash(streamId, cid) ==
    Prefix0x \o PadStart(ToString16(clientSimpleHash(streamId \o cid)), 64, CharZero)

\* the stream ids as strings of characters
StreamChars(streamId) == IF streamId = "s1" THEN << 115, 49 >> ELSE << 115, 50 >>

\* JSON.stringify(document) of the documents add() builds
DocumentJson == { << 123, 125 >> }

NewAdd(signer, streamId, json) ==
    [ pc         |-> "upload",    \* awaiting _uploadToIPFS
      signer     |-> signer,      \* address of seiConfig.signer, or none
      streamId   |-> streamId,    \* options.user_id || "default_stream"
      json       |-> json,
      cid        |-> << >>,
      merkleRoot |-> << >>,
      txHash     |-> << >> ]

\* _addSei after _uploadToIPFS resolved to cid: the merkle root is computed
\* and _appendToSeiRegistry is entered; without a signer it returns the mock
\* hash and add() returns, else registerStream is sent
Uploaded(add, cid) ==
    LET root == Prefix0x \o PadStart(ToString16(clientSimpleHash(cid)), 64, CharZero)
    IN  IF add.signer = NoSigner
        THEN [ add EXCEPT !.pc = "returned", !.cid = cid, !.merkleRoot = root,
                          !.txHash = MockTxHash(StreamChars(add.streamId), cid) ]
        ELSE [ add EXCEPT !.pc = "register", !.cid = cid, !.merkleRoot = root ]

\* add(messages, options) is called
AddCall ==
    /\ Len(adds) < MaxAdds
    /\ \E signer \in Addresses \cup { NoSigner }, s \in Streams, json \in DocumentJson :
          adds' = Append(adds, NewAdd(signer, s, json))
    /\ UNCHANGED contractVars
    /\ UNCHANGED << indexerVars, treeVars, hashVars, vaultVars >>

\* _uploadToIPFS: Pinata pinned the document and returned its IpfsHash
UploadReturns(n) ==
    /\ adds[n].pc = "upload"
    /\ \E cid \in LedgerCids : adds' = [ adds EXCEPT ![n] = Uploaded(@, cid) ]
    /\ UNCHANGED contractVars
    /\ UNCHANGED << indexerVars, treeVars, hashVars, vaultVars >>

\* _uploadToIPFS: no credentials, or the upload failed: the mock address
UploadFails(n) ==
    /\ adds[n].pc = "upload"
    /\ adds' = [ adds EXCEPT ![n] = Uploaded(@, MockCid(@.json)) ]
    /\ UNCHANGED contractVars
    /\ UNCHANGED << indexerVars, treeVars, hashVars, vaultVars >>

\* _appendToSeiRegistry: the registerStream transaction is mined; whether it
\* succeeded or reverted (caught and logged), append is sent next
RegisterMined(n) ==
    /\ adds[n].pc = "register"
    /\ registerStream(adds[n].signer, adds[n].streamId, adds[n].signer, "default")
    /\ adds' = [ adds EXCEPT ![n] = [ @ EXCEPT !.pc = "append" ] ]
    /\ UNCHANGED << indexerVars, treeVars, hashVars, vaultVars >>

\* _appendToSeiRegistry: registerStream could not be sent; caught and logged
RegisterFails(n) ==
    /\ adds[n].pc = "register"
    /\ adds' = [ adds EXCEPT ![n] = [ @ EXCEPT !.pc = "append" ] ]
    /\ UNCHANGED contractVars
    /\ UNCHANGED << indexerVars, treeVars, hashVars, vaultVars >>

\* _appendToSeiRegistry: the append transaction is mined; when it succeeded
\* its hash is returned, when it reverted the catch returns the mock hash;
\* add() returns its result either way
AppendMined(n) ==
    /\ adds[n].pc = "append"
    /\ append(adds[n].signer, adds[n].streamId, adds[n].cid, adds[n].merkleRoot)
    /\ adds' = [ adds EXCEPT ![n] =
                   [ @ EXCEPT !.pc = "returned",
                              !.txHash = IF lastTx'.status = "success"
                                         THEN TxHash(txCount')
                                         ELSE MockTxHash(StreamChars(adds[n].streamId),
                                                         adds[n].cid) ] ]
    /\ UNCHANGED << indexerVars, treeVars, hashVars, vaultVars >>

\* _appendToSeiRegistry: append could not be sent; the catch returns the
\* mock hash and add() returns its result
AppendFails(n) ==
    /\ adds[n].pc = "append"
    /\ adds' = [ adds EXCEPT ![n] =
                   [ @ EXCEPT !.pc = "returned",
                              !.txHash = MockTxHash(StreamChars(adds[n].streamId),
                                                    adds[n].cid) ] ]
    /\ UNCHANGED contractVars
    /\ UNCHANGED << indexerVars, treeVars, hashVars, vaultVars >>

LedgerNext ==
    \/ AccountTx
    \/ AddCall
    \/ \E n \in 1..Len(adds) : UploadReturns(n)
    \/ \E n \in 1..Len(adds) : UploadFails(n)
    \/ \E n \in 1..Len(adds) : RegisterMined(n)
    \/ \E n \in 1..Len(adds) : RegisterFails(n)
    \/ \E n \in 1..Len(adds) : AppendMined(n)
    \/ \E n \in 1..Len(adds) : AppendFails(n)

SpecLedger == Init /\ [][LedgerNext]_vars

----------------------------------------------------------------------------
(* PaymentVault *)

\* a PaymentVault call returned or reverted
Called(fn, sender, to, amount, ok) ==
    /\ callCount < MaxCalls
    /\ callCount' = callCount + 1
    /\ lastCall' = [ fn |-> fn, sender |-> sender, to |-> to, amount |-> amount,
                     status |-> IF ok THEN "success" ELSE "reverted" ]

\* usdcToken.transfer / transferFrom: amount moves from one holder to another
Transfer(token, from, to, amount) ==
    [ token EXCEPT ![from] = @ - amount, ![to] = @ + amount ]

\* PaymentVault.depositUSDC; transferFrom fails when the sender holds less
\* than amount or has not approved the vault for it
depositUSDC(sender, amount, approved) ==
    LET ok == amount > 0 /\ approved /\ usdc[sender] >= amount
    IN  /\ Called("depositUSDC", sender, ZeroAddress, amount, ok)
        /\ usdc' = IF ok THEN Transfer(usdc, sender, Vault, amount) ELSE usdc
        /\ balances' = IF ok THEN [ balances EXCEPT ![sender] = @ + amount ]
                       ELSE balances
        /\ UNCHANGED << streamPayments, indexerEarnings >>

\* PaymentVault.withdraw
withdraw(sender, amount) ==
    LET ok == amount > 0 /\ balances[sender] >= amount /\ usdc[Vault] >= amount
    IN  /\ Called("withdraw", sender, ZeroAddress, amount, ok)
        /\ balances' = IF ok THEN [ balances EXCEPT ![sender] = @ - amount ]
                       ELSE balances
        /\ usdc' = IF ok THEN Transfer(usdc, Vault, sender, amount) ELSE usdc
        /\ UNCHANGED << streamPayments, indexerEarnings >>

\* the protocol fee payIndexing keeps back
protocolFee(amount) ==
    (amount * INDEXING_FEE_BASIS_POINTS) \div BASIS_POINTS_DENOMINATOR

\* PaymentVault.payIndexing
payIndexing(sender, streamId, indexer, amount) ==
    LET ok == amount > 0 /\ indexer # ZeroAddress /\ balances[sender] >= amount
    IN  /\ Called("payIndexing", sender, indexer, amount, ok)
        /\ balances' = IF ok THEN [ balances EXCEPT ![sender] = @ - amount ]
                       ELSE balances
        /\ indexerEarnings' =
              IF ok
              THEN [ indexerEarnings EXCEPT
                       ![indexer] = @ + (amount - protocolFee(amount)) ]
              ELSE indexerEarnings
        /\ streamPayments' =
              IF ok THEN [ streamPayments EXCEPT ![streamId] = @ + amount ]
              ELSE streamPayments
        /\ UNCHANGED usdc

\* PaymentVault.sendTip
sendTip(sender, to, amount) ==
    LET ok == amount > 0 /\ to # ZeroAddress /\ balances[sender] >= amount
    IN  /\ Called("sendTip", sender, to, amount, ok)
        /\ balances' =
              IF ok
              THEN LET debited == [ balances EXCEPT ![sender] = @ - amount ]
                   IN  [ debited EXCEPT ![to] = @ + amount ]
              ELSE balances
        /\ UNCHANGED << usdc, streamPayments, indexerEarnings >>

\* variant: the earnings are paid out and stay on the books
withdrawEarningsKeepsBooks(sender) ==
    LET earnings == indexerEarnings[sender]
        ok       == earnings > 0 /\ usdc[Vault] >= earnings
    IN  /\ Called("withdrawEarnings", sender, ZeroAddress, earnings, ok)
        /\ usdc' = IF ok THEN Transfer(usdc, Vault, sender, earnings) ELSE usdc
        /\ UNCHANGED << balances, streamPayments, indexerEarnings >>

\* PaymentVault.withdrawEarnings
withdrawEarnings(sender) ==
    LET earnings == indexerEarnings[sender]
        ok       == earnings > 0 /\ usdc[Vault] >= earnings
    IN  /\ Called("withdrawEarnings", sender, ZeroAddress, earnings, ok)
        /\ indexerEarnings' = IF ok THEN [ indexerEarnings EXCEPT ![sender] = 0 ]
                              ELSE indexerEarnings
        /\ usdc' = IF ok THEN Transfer(usdc, Vault, sender, earnings) ELSE usdc
        /\ UNCHANGED << balances, streamPayments >>

\* the amounts the accounts call the vault with
Amounts == { 0, 99, 250 }

\* the calls any account may make
Deposit ==
    /\ \E sender \in Addresses, amount \in Amounts, approved \in BOOLEAN :
          depositUSDC(sender, amount, approved)
    /\ UNCHANGED << indexerVars, treeVars, hashVars, registryVars >>

Withdraw ==
    /\ \E sender \in Addresses, amount \in Amounts : withdraw(sender, amount)
    /\ UNCHANGED << indexerVars, treeVars, hashVars, registryVars >>

PayIndexing ==
    /\ \E sender \in Addresses, s \in Streams,
          indexer \in Addresses \cup { ZeroAddress }, amount \in Amounts :
          payIndexing(sender, s, indexer, amount)
    /\ UNCHANGED << indexerVars, treeVars, hashVars, registryVars >>

SendTip ==
    /\ \E sender \in Addresses, to \in Addresses \cup { ZeroAddress },
          amount \in Amounts :
          sendTip(sender, to, amount)
    /\ UNCHANGED << indexerVars, treeVars, hashVars, registryVars >>

WithdrawEarnings ==
    /\ \E sender \in Addresses : withdrawEarnings(sender)
    /\ UNCHANGED << indexerVars, treeVars, hashVars, registryVars >>

VaultNext ==
    \/ Deposit
    \/ Withdraw
    \/ PayIndexing
    \/ SendTip
    \/ WithdrawEarnings

SpecVault == Init /\ [][VaultNext]_vars

----------------------------------------------------------------------------
(* Properties of event ingestion, checked under Spec *)

\* loop i took the step that follows the vector-store insert (SetEntry)
DidSet(i) == loops[i].pc = "set" /\ loops'[i].pc # "set"

\* the vector store took loop i's insert (StoreReturns)
DidStore(i) == loops[i].pc = "store" /\ loops'[i].pc = "set"

InStream(map, streamId, cid) ==
    \E k \in 1..Len(map) : map[k].cid = cid /\ map[k].streamId = streamId

\* C7: an insert of a content address already present in the stream leaves
\* the stream's leaf count unchanged and is not reported as a new insert.
C7_InsertIdempotent ==
    [][ \A i \in 1..Len(loops) :
          (DidSet(i) /\ InStream(indexEntries, loops[i].event.args.streamId,
                                   loops[i].event.args.cid))
          => /\ Len(StreamEntries(indexEntries', loops[i].event.args.streamId))
                  = Len(StreamEntries(indexEntries, loops[i].event.args.streamId))
             /\ loops'[i].outcome # "indexed" ]_vars

\* C8: processing an event whose content address is already indexed changes
\* neither the local index nor the vector store.
C8_ReobserveNoOp ==
    [][ \A i \in 1..Len(loops) :
          ((DidStore(i) \/ DidSet(i))
              /\ MapHas(indexEntries, loops[i].event.args.cid))
          => (indexEntries' = indexEntries /\ vectorStore' = vectorStore) ]_vars

\* C9: when a poll ends, every event of its batch has been handed to
\* processMemoryAppendedEvent, whatever happened to the events before it.
C9_PerEventIsolation ==
    \A i \in 1..Len(loops) :
        loops[i].pc = "sleep" => Len(loops[i].batch) = 0

\* C10: an event whose embedding call failed inserts nothing, neither into
\* the vector store nor into the local index.
C10_FailedEventSkipped ==
    [][ \A i \in 1..Len(loops) :
          ((DidStore(i) \/ DidSet(i)) /\ loops[i].embedding = << >>)
          => (indexEntries' = indexEntries /\ vectorStore' = vectorStore) ]_vars

----------------------------------------------------------------------------
(* Properties of root anchoring, checked under Spec *)

\* a setIndexRootOnChain call was issued in this step; it is the last one
DidCall == Len(rootCalls') > Len(rootCalls)

LastCall(calls) == calls[Len(calls)]

\* call k was settled with the given status in this step
DidSettle(k, status) ==
    rootCalls[k].status = "pending" /\ rootCalls'[k].status = status

\* C11: while the indexer is running and a listener loop is polling, the
\* anchoring timer is installed, so that anchoring cycles fire on their own
\* interval beside the ingestion loop.
C11_SchedulerBesideLoop ==
    \A i \in 1..Len(loops) :
        (isRunning /\ loops[i].pc # "exited") => timers > 0

\* C12: a root is submitted for a stream only if it differs from the root
\* last anchored for that stream.
C12_SubmitOnlyIfChanged ==
    [][ DidCall => LastCall(rootCalls').merkleRoot
                      # indexRoot'[LastCall(rootCalls').streamId] ]_vars

----------------------------------------------------------------------------
(* Anchoring and search on the same index, checked under SpecRoots *)

\* C17: on one index state, the root an anchoring cycle submits for the
\* stream of an entry is the root search attaches to the proof of that entry.
C17_AnchorSearchAgree ==
    tPc = "anchored"
    => \E g \in 1..Len(tResult.calls) :
          /\ tResult.calls[g].streamId = tEntries[tTarget].streamId
          /\ tResult.calls[g].merkleRoot = tResult.proof.root
          /\ \A h \in 1..Len(tResult.calls) :
                tResult.calls[h].streamId = tResult.calls[g].streamId => h = g

\* both paths ran on an index whose target stream has two entries with an
\* entry of the other stream between them
W17_InterleavedStreams ==
    /\ tPc = "anchored"
    /\ Len(tEntries) = 3
    /\ tEntries[1].streamId = tEntries[3].streamId
    /\ tEntries[2].streamId # tEntries[1].streamId
    /\ tTarget = 3

----------------------------------------------------------------------------
(* Properties of verified search, checked under SpecSearch *)

\* search n called generateMerkleProof for its next result in this step
DidProve(n) ==
    /\ searches'[n].pc = "prove"
    /\ \/ searches[n].pc = "query"
       \/ /\ searches[n].pc = "prove"
          /\ Len(searches'[n].hits) < Len(searches[n].hits)

\* C15: the proof attached to a result carries the leaf digest of the hit's
\* entry and the Merkle root over the current entries of the queried stream.
C15_ProofScopedToQueriedStream ==
    [][ \A n \in 1..Len(searches) :
          DidProve(n)
          => LET hit   == Head(searches'[n].hits)
                 entry == MapGet(indexEntries, hit.id)
                 proof == searches'[n].pending[1]
             IN  /\ proof.leaf = hashLeaf(entry.cid, entry.embedding,
                                          entry.timestamp)
                 /\ proof.root = computeMerkleRoot(
                        StreamEntries(indexEntries, searches[n].streamId)) ]_vars

\* C16: a hit of the vector store that the local index does not hold is
\* dropped and the search goes on: no search fails because of such a hit.
C16_MissingHitDropped ==
    \A n \in 1..Len(searches) :
        searches[n].pc = "failed" => searches[n].error # "notFound"

----------------------------------------------------------------------------
(* Properties of the index order, checked under Spec *)

IsPrefix(short, long) ==
    /\ Len(short) <= Len(long)
    /\ \A k \in 1..Len(short) : short[k] = long[k]

\* C19: within a stream, the entries of the index are in the order in which
\* the ledger emitted their events.
C19_IndexFollowsLedgerOrder ==
    \A s \in Streams :
        LET entries == StreamEntries(indexEntries, s)
        IN  \A i, j \in 1..Len(entries) :
                i < j => entries[i].metadata.blockNumber
                            < entries[j].metadata.blockNumber

\* C20: a step that changes the index leaves the leaf sequence of every
\* stream a prefix of its new leaf sequence.
C20_LeavesAppendOnly ==
    [][ indexEntries' # indexEntries
        => \A s \in Streams :
              IsPrefix(LeavesOf(StreamEntries(indexEntries, s)),
                       LeavesOf(StreamEntries(indexEntries', s))) ]_vars

----------------------------------------------------------------------------
(* Properties of snapshots, checked under SpecSnapshot *)

\* C21: every root an anchoring cycle submits and every proof a search
\* attaches is computed from one state of the stream's leaf sequence that
\* existed: the groups of a cycle are the stream entries of the index at the
\* step the cycle starts and are not altered afterwards, each call carries
\* the root of its group, and leaf, siblings and root of a proof are computed
\* from the index of one step and attached as computed, whatever ingestion
\* does in between.
C21_SnapshotConsistency ==
    [][ /\ (ticks' # ticks /\ Len(cycles') > Len(cycles))
            => LET groups == cycles'[Len(cycles')].groups
               IN  \A g \in 1..Len(groups) :
                      groups[g].entries
                          = StreamEntries(indexEntries, groups[g].streamId)
        /\ Len(cycles') = Len(cycles)
            => \A c \in 1..Len(cycles) :
                  \/ cycles'[c].groups = cycles[c].groups
                  \/ cycles'[c].groups = Tail(cycles[c].groups)
        /\ DidCall
            => \E c \in 1..Len(cycles') :
                  /\ cycles'[c].call = Len(rootCalls')
                  /\ LastCall(rootCalls').streamId
                        = Head(cycles'[c].groups).streamId
                  /\ LastCall(rootCalls').merkleRoot
                        = computeMerkleRoot(Head(cycles'[c].groups).entries)
        /\ \A n \in 1..Len(searches) :
              /\ DidProve(n)
                  => LET entry == MapGet(indexEntries, Head(searches'[n].hits).id)
                     IN  searches'[n].pending
                            = << ProofRecord(StreamEntries(indexEntries,
                                                           entry.streamId),
                                             entry) >>
              /\ Len(searches'[n].results) > Len(searches[n].results)
                  => searches'[n].results[Len(searches'[n].results)].proof
                        = searches[n].pending[1] ]_vars

\* ingestion changed the stream while a submitted root and a computed proof
\* were both awaited
W21_IngestionDuringAwaits ==
    /\ \E c \in 1..Len(cycles) :
          /\ rootCalls[cycles[c].call].status = "pending"
          /\ Head(cycles[c].groups).entries
                # StreamEntries(indexEntries, Head(cycles[c].groups).streamId)
    /\ \E n \in 1..Len(searches) :
          /\ searches[n].pc = "prove"
          /\ Len(StreamEntries(indexEntries,
                     MapGet(indexEntries, Head(searches[n].hits).id).streamId)) > 1
          /\ Len(searches[n].pending[1].proof) = 0

----------------------------------------------------------------------------
(* Properties of the listener loop's scheduling, checked under Spec *)

\* a step of listener loop i
LoopStep(i) ==
    \/ PollFails(i) \/ PollReturns(i)
    \/ FetchFails(i) \/ FetchReturns(i)
    \/ EmbedFails(i) \/ EmbedReturns(i)
    \/ StoreFails(i) \/ StoreReturns(i)
    \/ SetEntry(i) \/ Wake(i)

\* the loop took a step: every step changes its position or shortens its batch
Moved(before, after) ==
    before.pc # after.pc \/ Len(before.batch) # Len(after.batch)

\* an upper bound of the steps loop i takes before it has exited, provided
\* it starts no poll
Remaining(loop) ==
    IF loop.pc = "exited" THEN 0
    ELSE IF loop.pc = "poll" THEN 5 * MaxEvents + 6
    ELSE 5 * Len(loop.batch)
            + (CASE loop.pc = "sleep" -> 1
                 [] loop.pc = "set"   -> 2
                 [] loop.pc = "store" -> 3
                 [] loop.pc = "embed" -> 4
                 [] loop.pc = "fetch" -> 5)

PollFailed(loop) == loop.outcome \in { "pollFailed", "thrown" }

\* C23: a poll that fails as a whole does not end the loop: the loop sleeps
\* the error delay, which is longer than the normal interval, and polls
\* again while the indexer is running; a poll that succeeded is followed by
\* the normal interval.
C23_RetryAfterFailedPoll ==
    /\ ErrorDelay > PollInterval
    /\ [] (\A i \in 1..Len(loops) :
              loops[i].pc = "sleep"
                  => /\ loops[i].delay = IF PollFailed(loops[i])
                                         THEN ErrorDelay ELSE PollInterval
                     /\ ENABLED Wake(i))
    /\ [][ \A i \in 1..Len(loops) :
              /\ (loops[i].pc = "poll" /\ Moved(loops[i], loops'[i])
                     /\ PollFailed(loops'[i]))
                 => (loops'[i].pc = "sleep" /\ loops'[i].delay = ErrorDelay)
              /\ (loops[i].pc = "sleep" /\ Moved(loops[i], loops'[i])
                     /\ isRunning)
                 => loops'[i].pc = "poll" ]_vars

\* a loop polls again after a poll that failed
W23_PollingAfterFailure ==
    \E i \in 1..Len(loops) :
        /\ loops[i].pc = "poll"
        /\ loops[i].outcome = "pollFailed"
        /\ polls > 0

\* C24: a poll fetches only events after the last observed position: with a
\* single listener loop, the event the loop takes from the batch of its poll
\* is never one that an earlier poll fetched and indexed.
C24_NoEventPolledTwice ==
    (Len(loops) = 1 /\ loops[1].pc = "fetch")
        => \A k \in 1..Len(indexEntries) :
              indexEntries[k].metadata.blockNumber # loops[1].event.blockNumber

C29_AnchorFailureIsolated ==
    [][ \A c \in 1..Len(cycles) :
          DidSettle(cycles[c].call, "failed")
          => /\ indexEntries' = indexEntries
             /\ vectorStore' = vectorStore
             /\ indexRoot' = indexRoot
             /\ timers' = timers
             /\ isRunning' = isRunning
             /\ ticks' = ticks
             /\ Len(cycles[c].groups) > 1
                => /\ DidCall
                   /\ LastCall(rootCalls').status = "pending"
                   /\ LastCall(rootCalls').streamId
                         = cycles[c].groups[2].streamId
                   /\ Len(cycles') = Len(cycles)
                   /\ cycles'[c].call = Len(rootCalls') ]_vars

\* the first call of a cycle failed and the call for the other stream was
\* issued by the same cycle
W29_NextStreamAfterFailure ==
    /\ ticks = 1
    /\ Len(rootCalls) = 2
    /\ rootCalls[1].status = "failed"
    /\ rootCalls[2].streamId # rootCalls[1].streamId

----------------------------------------------------------------------------
(* Properties of the client and the contracts, checked under SpecLedger *)

\* C27: when add() has returned a result, the registry's append for the
\* result's stream and content address was mined successfully, the content
\* address is in the stream's history, and the result's txHash is the hash
\* of that transaction.
C27_AddMeansAppended ==
    \A n \in 1..Len(adds) :
        adds[n].pc = "returned"
        => /\ \E e \in 1..Len(memoryAppended) :
                 /\ memoryAppended[e].streamId = adds[n].streamId
                 /\ memoryAppended[e].cid = adds[n].cid
                 /\ memoryAppended[e].hash = adds[n].txHash
           /\ \E h \in 1..Len(streamHistory[adds[n].streamId]) :
                 streamHistory[adds[n].streamId][h] = adds[n].cid

\* the transaction mined in this step
DidMine(fn, streamId) ==
    /\ txCount' = txCount + 1
    /\ lastTx'.fn = fn
    /\ lastTx'.streamId = streamId

\* C30: the index root of a stream changes only in a setIndexRoot
\* transaction that succeeds, sent for an existing stream by its owner or
\* its authorized indexer at that time; a setIndexRoot transaction of any
\* other sender, or for a stream that does not exist, reverts and leaves
\* the registry as it is.
C30_IndexRootAuthorized ==
    [][ \A s \in Streams :
          LET allowed == /\ streams[s].exists
                         /\ lastTx'.sender \in { streams[s].owner,
                                                 streams[s].authorizedIndexer }
          IN  /\ streams'[s].indexRoot # streams[s].indexRoot
                 => /\ DidMine("setIndexRoot", s)
                    /\ lastTx'.status = "success"
                    /\ allowed
              /\ (DidMine("setIndexRoot", s) /\ ~ allowed)
                 => /\ lastTx'.status = "reverted"
                    /\ streams' = streams
                    /\ streamHistory' = streamHistory ]_vars

\* the authorized indexer of a stream, who is not its owner, has set a root
W30_IndexerSetRoot ==
    \E s \in Streams :
        /\ lastTx.fn = "setIndexRoot"
        /\ lastTx.streamId = s
        /\ lastTx.status = "success"
        /\ lastTx.sender = streams[s].authorizedIndexer
        /\ lastTx.sender # streams[s].owner
        /\ streams[s].indexRoot # ZeroRoot

\* C31: authorize succeeds when the owner of the stream calls it: an
\* authorize transaction sent by the owner of a registered stream, granting
\* a capability to an account, does not revert.
C31_OwnerCanAuthorize ==
    [][ \A s \in Streams :
          (DidMine("authorize", s)
              /\ streams[s].exists
              /\ lastTx'.sender = streams[s].owner)
          => lastTx'.status = "success" ]_vars

----------------------------------------------------------------------------
(* Properties of restarts, checked under Spec *)

\* C32: at most one listener loop is active after any sequence of start()
\* and stop() calls.
C32_SingleActiveLoop ==
    \A i, j \in 1..Len(loops) :
        (loops[i].pc # "exited" /\ loops[j].pc # "exited") => i = j

\* C33: at most one anchoring timer is installed after any sequence of
\* start() and stop() calls, and at most one anchoring cycle is in flight.
C33_SingleTimerSingleCycle ==
    /\ timers <= 1
    /\ Len(cycles) <= 1

----------------------------------------------------------------------------
(* Properties of search beside ingestion, checked under SpecSearch *)

\* C34: the results of one search() call that belong to the same stream
\* carry the same root.
C34_OneRootPerSearch ==
    \A n \in 1..Len(searches) :
        \A a, b \in 1..Len(searches[n].results) :
            searches[n].results[a].payload.streamId
                = searches[n].results[b].payload.streamId
            => searches[n].results[a].proof.root
                  = searches[n].results[b].proof.root

----------------------------------------------------------------------------
(* Properties of the index across streams, checked under Spec *)

\* C35: processing an append event of one stream leaves the leaf sequence
\* and the root of every other stream as they were, whatever content address
\* the event carries.
C35_StreamIsolation ==
    [][ \A i \in 1..Len(loops) :
          DidSet(i)
          => \A s \in Streams \ { loops[i].event.args.streamId } :
                /\ LeavesOf(StreamEntries(indexEntries', s))
                      = LeavesOf(StreamEntries(indexEntries, s))
                /\ computeMerkleRoot(StreamEntries(indexEntries', s))
                      = computeMerkleRoot(StreamEntries(indexEntries, s)) ]_vars

\* loop i's vector-store insert was rejected (StoreFails)
DidFailStore(i) == loops[i].pc = "store" /\ loops'[i].pc \notin { "store", "set" }

\* the vector store holds the insert made for the entry
Backed(entry) ==
    \E n \in 1..Len(vectorStore) :
        /\ vectorStore[n].id = entry.cid
        /\ vectorStore[n].vector = entry.embedding
        /\ vectorStore[n].payload = entry.metadata

\* C36: every entry of the local index was inserted into the vector store by
\* an insert that succeeded, and a rejected insert leaves the local index as
\* it was.
C36_IndexBackedByVectorStore ==
    /\ [] (\A n \in 1..Len(indexEntries) : Backed(indexEntries[n]))
    /\ [][ \A i \in 1..Len(loops) :
             DidFailStore(i) => indexEntries' = indexEntries ]_vars

W36_IndexedBesideRejectedInsert ==
    /\ Len(indexEntries) >= 1
    /\ \E i \in 1..Len(loops) : loops[i].outcome = "error"
    /\ Len(vectorStore) = Len(indexEntries)

----------------------------------------------------------------------------
(* Properties of the payment vault, checked under SpecVault *)

RECURSIVE SumOver(_, _)
SumOver(f, keys) ==
    IF keys = { } THEN 0
    ELSE LET k == CHOOSE x \in keys : TRUE
         IN  f[k] + SumOver(f, keys \ { k })

\* the call made by this step was a payIndexing that did not revert
DidPay ==
    /\ callCount' = callCount + 1
    /\ lastCall'.fn = "payIndexing"
    /\ lastCall'.status = "success"

\* C37: the vault holds at least the tokens it owes, which are all balances
\* and all indexer earnings; no balance and no earning is negative; and a
\* payIndexing of an amount takes exactly the amount from the payer and gives
\* the amount less floor(amount * 100 / 10000) to the indexer.
C37_VaultSolvent ==
    /\ [] /\ usdc[Vault] >= SumOver(balances, Addresses)
                              + SumOver(indexerEarnings, Addresses)
          /\ \A a \in Addresses : balances[a] >= 0 /\ indexerEarnings[a] >= 0
    /\ [][ DidPay
           => /\ balances'[lastCall'.sender]
                    = balances[lastCall'.sender] - lastCall'.amount
              /\ indexerEarnings'[lastCall'.to]
                    = indexerEarnings[lastCall'.to] + lastCall'.amount
                        - ((lastCall'.amount * 100) \div 10000) ]_vars

W37_FeeKeptByVault ==
    /\ lastCall.fn = "withdrawEarnings"
    /\ lastCall.status = "success"
    /\ lastCall.amount = 248
    /\ usdc[Vault] = 2
    /\ SumOver(balances, Addresses) = 0

----------------------------------------------------------------------------
(* Properties of the registry's streams, checked under SpecLedger *)

\* C38: the identity of a stream is fixed when it is registered: a
\* registerStream for a stream that exists reverts and changes nothing, a
\* stream comes to exist only by a registerStream that succeeds and its owner
\* is then the owner passed to that call, and a stream that exists keeps
\* existing with the same owner in every later step.
C38_StreamIdentityFixed ==
    [][ \A s \in Streams :
          /\ (DidMine("registerStream", s) /\ streams[s].exists)
             => /\ lastTx'.status = "reverted"
                /\ streams' = streams
          /\ (~ streams[s].exists /\ streams'[s].exists)
             => /\ DidMine("registerStream", s)
                /\ lastTx'.status = "success"
                /\ streams'[s].owner = lastTx'.owner
                /\ streams'[s].owner # ZeroAddress
          /\ streams[s].exists
             => /\ streams'[s].exists
                /\ streams'[s].owner = streams[s].owner ]_vars

W38_SecondRegistrationReverted ==
    \E s \in Streams :
        /\ streams[s].exists
        /\ lastTx.fn = "registerStream"
        /\ lastTx.streamId = s
        /\ lastTx.status = "reverted"
        /\ lastTx.owner \notin { ZeroAddress, streams[s].owner }
        /\ streams[s].authorizedIndexer # ZeroAddress

\* the content addresses of the MemoryAppended events of a stream, in order
RECURSIVE AppendedTo(_, _)
AppendedTo(events, s) ==
    IF Len(events) = 0 THEN << >>
    ELSE IF Head(events).streamId = s
    THEN << Head(events).cid >> \o AppendedTo(Tail(events), s)
    ELSE AppendedTo(Tail(events), s)

\* C39: the history of a stream only grows at its end: it holds the content
\* address of every append that succeeded on the stream, one per append and
\* in order; the head latestCID is its last element whenever it is not
\* empty; every step leaves the earlier history as a prefix of the later one;
\* and an append that reverts changes nothing.
C39_HistoryAppendOnly ==
    /\ [] \A s \in Streams :
             /\ streamHistory[s] = AppendedTo(memoryAppended, s)
             /\ Len(streamHistory[s]) > 0
                => streams[s].latestCID
                      = streamHistory[s][Len(streamHistory[s])]
    /\ [][ \A s \in Streams :
             /\ IsPrefix(streamHistory[s], streamHistory'[s])
             /\ (DidMine("append", s) /\ lastTx'.status = "success")
                => Len(streamHistory'[s]) = Len(streamHistory[s]) + 1
             /\ (DidMine("append", s) /\ lastTx'.status = "reverted")
                => /\ streams' = streams
                   /\ streamHistory' = streamHistory
                   /\ memoryAppended' = memoryAppended ]_vars

W39_HistoryOfTwo ==
    \E s \in Streams :
        /\ Len(streamHistory[s]) = 2
        /\ streamHistory[s][1] # streamHistory[s][2]
        /\ streams[s].latestCID = streamHistory[s][2]
        /\ lastTx.fn = "append"

----------------------------------------------------------------------------
(* Properties of the digest primitive, checked under SpecHash *)

\* 0-9 and a-f
IsHexDigit(c) == (c >= 48 /\ c <= 57) \/ (c >= 97 /\ c <= 102)

\* a 32-bit magnitude held in two 16-bit limbs is at most 2^31
AtMostTwo31(m) ==
    /\ m[1] >= 0 /\ m[2] >= 0 /\ m[2] < 65536
    /\ m[1] < 32768 \/ (m[1] = 32768 /\ m[2] = 0)

\* C40: simpleHash returns, for every input string, exactly 64 hexadecimal
\* characters, which hashPair prefixes with 0x; the absolute value of the
\* signed 32-bit accumulator lies in 0..2^31, the accumulator -2^31
\* included.
C40_DigestIs64HexChars ==
    hPc = "hashed"
    => /\ Len(hResult.digest) = 64
       /\ \A k \in 1..64 : IsHexDigit(hResult.digest[k])
       /\ AtMostTwo31(hResult.abs)
       /\ (hResult.acc = << 32768, 0 >>) => (hResult.abs = << 32768, 0 >>)
       /\ Len(hResult.pair) = 66
       /\ hResult.pair[1] = 48 /\ hResult.pair[2] = 120

W40_AccumulatorMinInt ==
    /\ hPc = "hashed"
    /\ hInput = << 71, 121, 100, 90, 71, 95 >>
    /\ hResult.acc = << 32768, 0 >>
    /\ hResult.digest = [ k \in 1..64 |-> IF k = 57 THEN 56 ELSE 48 ]

====
